---- MODULE Spec2Model ----
(***************************************************************************)
(* A model of the multi-level visual hashing engine of the NeuralDiff SDK  *)
(* (src/src/hashing.ts): the hashing kernels, compareHashes, and the       *)
(* progressive escalation of VisualHasher.progressiveCompare.              *)
(*                                                                         *)
(* Conventions.                                                            *)
(*  - A hash is a sequence of the characters "0" and "1".                  *)
(*  - A number that is a ratio (a similarity) is a record [num, den];      *)
(*    a threshold is a whole number of hundredths (95 is 0.95).            *)
(*  - An options object is a function from the keys it holds to their      *)
(*    values; a key may hold undefined (Undefined) or be absent.           *)
(*  - A thrown Error is a record with an "error" field.                    *)
(*  - Date.now() readings (duration, totalDuration) are left out: no       *)
(*    branch of the code reads them.                                       *)
(***************************************************************************)
EXTENDS Integers, Sequences, FiniteSets, TLC

VARIABLES
  ctorArg,    \* the options object the instance was constructed with
  options,    \* VisualHasher.options: the instance configuration
  pc,         \* position of the progressiveCompare invocation: <<level, step>>
  image1,     \* its first argument
  image2,     \* its second argument
  callOptions, \* its third argument, the per-call options
  opts,       \* its local opts = { ...this.options, ...options }
  hash1,      \* its local hash1 at the current level
  hash2,      \* its local hash2 at the current level
  outcome,    \* what the invocation settled with: a returned value or an error
  trace,      \* the generateHash / compareHashes calls the invocation made
  cmpArgs,    \* arguments of a direct compareHashes call
  cmpResult,  \* what that call returned or threw
  genArgs,    \* arguments of a direct generateHash call
  genResult,  \* what that call returned or threw
  genSeen,    \* an earlier direct generateHash call: its arguments and result
  overridden, \* history: an earlier progressiveCompare call on this instance
              \* carried per-call options
  calls,      \* the frames of progressiveCompare invocations that run at the
              \* same time on the instance, one per invocation
  kern        \* a direct call of a utility function: its arguments and result

genVars == <<genArgs, genResult, genSeen>>

callVars == <<callOptions, overridden, calls, kern>>

vars == <<ctorArg, options, pc, image1, image2, opts, hash1, hash2, outcome, trace,
          cmpArgs, cmpResult, genVars, callVars>>

(***************************************************************************)
(* Values                                                                  *)
(***************************************************************************)

\* JavaScript's undefined, as the value of an options key or of a local.
Undefined == [kind |-> "undefined"]

\* if (v): an object is truthy, undefined is not.
Truthy(v) == v # Undefined

\* obj.key of an options object: undefined when the key is absent.
Get(obj, key) == IF key \in DOMAIN obj THEN obj[key] ELSE Undefined

\* The spread written the wrong way round: { ...b, ...a }.
SpreadReversed(a, b) ==
  [k \in (DOMAIN a) \cup (DOMAIN b) |-> IF k \in DOMAIN a THEN a[k] ELSE b[k]]

\* { ...a, ...b }: every own key of b, even one holding undefined, replaces a's.
Spread(a, b) ==
  [k \in (DOMAIN a) \cup (DOMAIN b) |-> IF k \in DOMAIN b THEN b[k] ELSE a[k]]

\* The empty options object {} (also the spread of an undefined argument).
NoOptions == [k \in {} |-> Undefined]

IsError(r) == "error" \in DOMAIN r

Ratio(n, d) == [num |-> n, den |-> d]

\* a >= t for a ratio a and a threshold t in hundredths.
RatioGEq(a, t) == a.num * 100 >= t * a.den

\* a > t for a ratio a and a threshold t in hundredths.
RatioGt(a, t) == a.num * 100 > t * a.den

RatioEq(a, b) == a.num * b.den = b.num * a.den

(***************************************************************************)
(* compareHashes and calculateHammingDistance                              *)
(*                                                                         *)
(* similarity = 1 - distance / length is a double in the code and the      *)
(* exact ratio (length - distance) / length here.  For every length up to  *)
(* 1099 and every distance, the double compares with 0.5, 0.6, 0.75, 0.8,  *)
(* 0.85, 0.9, 0.95, 0.99 and 1.0 (>, >=, ===) as the exact ratio does, so  *)
(* no branch of the code can tell the two apart on the hashes it makes.    *)
(***************************************************************************)

\* The positions loop stopping one index early: i < hash1.length - 1.
positionsInShort(h1, h2, lo, hi) ==
  SelectSeq([i \in 1..(hi - lo) |-> lo + i - 1], LAMBDA j : h1[j + 1] # h2[j + 1])

\* for (i = 0; i < hash1.length; i++) if (hash1[i] !== hash2[i]) positions.push(i)
\* over the indices lo..hi (0-based), in the order of the loop.
RECURSIVE positionsIn(_, _, _, _)
positionsIn(h1, h2, lo, hi) ==
  IF lo > hi THEN <<>>
  ELSE IF lo = hi
  THEN (IF lo + 1 > Len(h2) \/ h1[lo + 1] # h2[lo + 1] THEN <<lo>> ELSE <<>>)
  ELSE positionsIn(h1, h2, lo, (lo + hi) \div 2)
       \o positionsIn(h1, h2, ((lo + hi) \div 2) + 1, hi)

\* The distance loop starting at index 1: the first position is not counted.
calculateHammingDistanceFromOne(h1, h2) ==
  IF Len(h1) # Len(h2)
  THEN [error |-> "Hash lengths must be equal for Hamming distance calculation"]
  ELSE [distance |-> Cardinality({i \in 2..Len(h1) : h1[i] # h2[i]})]

\* A distance that counts only the positions where the first string has the
\* 1 and the second the 0.
calculateHammingDistanceOneSided(h1, h2) ==
  IF Len(h1) # Len(h2)
  THEN [error |-> "Hash lengths must be equal for Hamming distance calculation"]
  ELSE [distance |-> Cardinality({i \in 1..Len(h1) : h1[i] = "1" /\ h2[i] = "0"})]

\* The distance loop without the length check: a position past the end of
\* the second string counts as a difference.
calculateHammingDistanceUnchecked(h1, h2) ==
  [distance |-> Cardinality({i \in 1..Len(h1) : i > Len(h2) \/ h1[i] # h2[i]})]

calculateHammingDistance(h1, h2) ==
  IF Len(h1) # Len(h2)
  THEN [error |-> "Hash lengths must be equal for Hamming distance calculation"]
  ELSE [distance |-> Cardinality({i \in 1..Len(h1) : h1[i] # h2[i]})]

\* The classification with inclusive comparisons: >= 0.8, >= 0.6.
severityOfInclusive(similarity) ==
  IF RatioGEq(similarity, 80) THEN "low"
  ELSE IF RatioGEq(similarity, 60) THEN "medium"
  ELSE "high"

severityOf(similarity) ==
  IF RatioGt(similarity, 80) THEN "low"
  ELSE IF RatioGt(similarity, 60) THEN "medium"
  ELSE "high"

\* compareHashes with a tolerant identical flag: at most one differing bit.
compareHashesTolerant(h1, h2, algorithm) ==
  IF h1 = h2
  THEN [identical |-> TRUE, similarity |-> Ratio(1, 1), algorithm |-> algorithm]
  ELSE
    LET hd == calculateHammingDistance(h1, h2)
    IN  IF IsError(hd) THEN hd
        ELSE
          LET similarity == Ratio(Len(h1) - hd.distance, Len(h1))
          IN  [identical   |-> hd.distance <= 1,
               similarity  |-> similarity,
               algorithm   |-> algorithm,
               differences |-> [count     |-> hd.distance,
                                positions |-> positionsIn(h1, h2, 0, Len(h1) - 1),
                                severity  |-> severityOf(similarity)]]

compareHashes(h1, h2, algorithm) ==
  IF h1 = h2
  THEN [identical |-> TRUE, similarity |-> Ratio(1, 1), algorithm |-> algorithm]
  ELSE
    LET hd == calculateHammingDistance(h1, h2)
    IN  IF IsError(hd) THEN hd
        ELSE
          LET similarity == Ratio(Len(h1) - hd.distance, Len(h1))
          IN  [identical   |-> RatioEq(similarity, Ratio(1, 1)),
               similarity  |-> similarity,
               algorithm   |-> algorithm,
               differences |-> [count     |-> hd.distance,
                                positions |-> positionsIn(h1, h2, 0, Len(h1) - 1),
                                severity  |-> severityOf(similarity)]]

(***************************************************************************)
(* The pixel source: sharp(buffer).resize(w, h)[.grayscale()].raw()        *)
(* .toBuffer().  sharp is an external library; it is modelled as a         *)
(* deterministic decoder.  An image buffer is a record                     *)
(*   [decodable, alpha, w, h, px]                                          *)
(* with px the w*h grey levels (0..255) of the picture, row by row; an     *)
(* undecodable buffer (empty, or not an image) makes sharp reject.         *)
(* Resizing samples the nearest source pixel.  The raw buffer holds, per   *)
(* pixel, 1 sample (greyscale) or 3 samples (colour), followed by an alpha *)
(* sample of 255 when the image has an alpha channel, which sharp keeps.   *)
(***************************************************************************)

\* Samples per pixel of the raw buffer.
channelsOf(image, grayscale) ==
  (IF grayscale THEN 1 ELSE 3) + (IF image.alpha THEN 1 ELSE 0)

\* Grey level of pixel (y, x) of the image resized to w by h.
resizedPixel(image, w, h, y, x) ==
  image.px[((y * image.h) \div h) * image.w + ((x * image.w) \div w) + 1]

\* A pixel source that answers an undecodable buffer with samples of 0.
sharpRawZeroFill(image, w, h, grayscale) ==
  IF w < 1 \/ h < 1
  THEN [error |-> "Expected positive integer for width"]
  ELSE IF ~image.decodable
  THEN [data |-> [i \in 1..(w * h * (IF grayscale THEN 1 ELSE 3)) |-> 0]]
  ELSE
    LET ch == channelsOf(image, grayscale)
    IN  [data |-> [i \in 1..(w * h * ch) |->
                     LET p == (i - 1) \div ch
                         c == (i - 1) % ch
                     IN  IF image.alpha /\ c = ch - 1 THEN 255
                         ELSE resizedPixel(image, w, h, p \div w, p % w)]]

sharpRaw(image, w, h, grayscale) ==
  IF ~image.decodable
  THEN [error |-> "Input buffer contains unsupported image format"]
  ELSE IF w < 1 \/ h < 1
  THEN [error |-> "Expected positive integer for width"]
  ELSE
    LET ch == channelsOf(image, grayscale)
    IN  [data |-> [i \in 1..(w * h * ch) |->
                     LET p == (i - 1) \div ch
                         c == (i - 1) % ch
                     IN  IF image.alpha /\ c = ch - 1 THEN 255
                         ELSE resizedPixel(image, w, h, p \div w, p % w)]]

\* pixels[i] of a Uint8Array, i counted from 0.
At(pixels, i) == pixels[i + 1]

\* values.reduce((sum, v) => sum + v, 0), over the indices lo..hi.
RECURSIVE sumRange(_, _, _)
sumRange(s, lo, hi) ==
  IF lo > hi THEN 0
  ELSE IF lo = hi THEN s[lo]
  ELSE sumRange(s, lo, (lo + hi) \div 2) + sumRange(s, ((lo + hi) \div 2) + 1, hi)

sumSeq(s) == sumRange(s, 1, Len(s))

\* The string of one bit: '1' when b holds, else '0'.
bit(b) == IF b THEN "1" ELSE "0"

(***************************************************************************)
(* Hashing algorithms                                                      *)
(***************************************************************************)

\* pixels[i] > average, where average = sum(pixels) / pixels.length.
averageHash(image, size) ==
  LET resized == sharpRaw(image, size, size, TRUE)
  IN  IF IsError(resized) THEN resized
      ELSE
        LET pixels == resized.data
            total  == sumSeq(pixels)
        IN  [hash |-> [i \in 1..Len(pixels) |->
                         bit(pixels[i] * Len(pixels) > total)]]

\* current > next over a (size+1) x (size+1) grid.
differenceHash(image, size) ==
  LET resized == sharpRaw(image, size + 1, size + 1, TRUE)
  IN  IF IsError(resized) THEN resized
      ELSE
        LET pixels == resized.data
        IN  [hash |-> [i \in 1..(size * size) |->
                         LET y == (i - 1) \div size
                             x == (i - 1) % size
                         IN  bit(At(pixels, y * (size + 1) + x)
                                 > At(pixels, y * (size + 1) + x + 1))]]

\* blockAvg > 128 for each 4 x 4 block of a 4*size x 4*size grid, where
\* blockAvg = blockSum / 16.
blockHash(image, size) ==
  LET resized == sharpRaw(image, size * 4, size * 4, TRUE)
  IN  IF IsError(resized) THEN resized
      ELSE
        LET pixels == resized.data
            blockSize == 4
            blockSum(by, bx) ==
              sumSeq([k \in 1..(blockSize * blockSize) |->
                        LET y == (k - 1) \div blockSize
                            x == (k - 1) % blockSize
                        IN  At(pixels, (by * blockSize + y) * (size * 4)
                                       + (bx * blockSize + x))])
        IN  [hash |-> [i \in 1..(size * size) |->
                         bit(blockSum((i - 1) \div size, (i - 1) % size)
                             > 128 * (blockSize * blockSize))]]

\* Per channel c of 0..2: mean > 128, where mean is the histogram mean of the
\* samples at indices c, c+3, c+6, ... of the raw colour buffer:
\* sum(value * frequency) / sum(frequency) = sum of the samples / their count.
colorHistogramHash(image, size) ==
  LET resized == sharpRaw(image, size, size, FALSE)
  IN  IF IsError(resized) THEN resized
      ELSE
        LET pixels == resized.data
            channels == 3
            idx(c) == {i \in 0..(Len(pixels) - 1) : i >= c /\ (i - c) % channels = 0}
            samples(c) == [j \in 1..Cardinality(idx(c)) |->
                             At(pixels, c + (j - 1) * channels)]
        IN  [hash |-> [c \in 1..channels |->
                         bit(sumSeq(samples(c - 1)) > 128 * Len(samples(c - 1)))]]

(***************************************************************************)
(* Utility functions                                                       *)
(***************************************************************************)

Ascending(values) == SortSeq(values, LAMBDA a, b : a < b)

\* values.sort(...): the sort done in the caller's array.
sortedInPlace(values) == Ascending(values)

\* [...values].sort(...): the sort is done in a copy, and the caller's array
\* is afterwards what it was.
sortedInCopy(values) == values

\* The median that takes the element at mid for every length.
medianOfMiddle(values) ==
  LET sorted == Ascending(values)
      mid    == Len(sorted) \div 2
  IN  IF Len(sorted) = 0 THEN Ratio(0, 0) ELSE Ratio(sorted[mid + 1], 1)

\* median of a sequence of whole numbers, as a ratio: sorted[mid] for an odd
\* length, (sorted[mid - 1] + sorted[mid]) / 2 for an even one (0-based, mid =
\* floor(length / 2)).  On an empty sequence both reads are undefined and the
\* result is NaN, written 0/0: no number is greater than it.
median(values) ==
  LET sorted == Ascending(values)
      mid    == Len(sorted) \div 2
  IN  IF Len(sorted) = 0 THEN Ratio(0, 0)
      ELSE IF Len(sorted) % 2 = 0
      THEN Ratio(sorted[mid] + sorted[mid + 1], 2)
      ELSE Ratio(sorted[mid + 1], 1)

\* value >= m
GeRatio(value, m) == value * m.den >= m.num

\* value > m for a whole number and a ratio m.
GtRatio(value, m) == value * m.den > m.num

\* 100 * cos(m * PI / (2 * n)), to the nearest hundredth or so: the angle is
\* folded into the first quadrant and the cosine there is taken from
\* Bhaskara's rational approximation cos(t * PI) ~ (1 - 4 t^2) / (1 + t^2).
cos100(m, n) ==
  LET r    == m % (4 * n)
      s    == IF r > 2 * n THEN 4 * n - r ELSE r
      k    == IF s > n THEN 2 * n - s ELSE s
      c    == (100 * (4 * n * n - 4 * k * k)) \div (4 * n * n + k * k)
  IN  IF s > n THEN 0 - c ELSE c

\* dct[u * size + v] = sum over x, y of pixels[y * size + x] * cos1 * cos2, with
\* cos1 = cos((2x+1) u PI / (2 size)) and cos2 = cos((2y+1) v PI / (2 size));
\* the coefficients are scaled by 10000.  Only the first `count` are built.
simpleDCT(pixels, size, count) ==
  [k \in 1..count |->
     LET u == (k - 1) \div size
         v == (k - 1) % size
     IN  sumSeq([p \in 1..(size * size) |->
                   LET x == (p - 1) \div size
                       y == (p - 1) % size
                   IN  At(pixels, y * size + x)
                       * cos100((2 * x + 1) * u, size)
                       * cos100((2 * y + 1) * v, size)])]

\* Passes of the Haar transform: step = 1, 2, 4, ... while step < size.
RECURSIVE haarSteps(_, _)
haarSteps(step, size) ==
  IF step < size THEN <<step>> \o haarSteps(step * 2, size) ELSE <<>>

\* The array `result` is a record: v holds its numbers and nan the (1-based)
\* places whose value is NaN.  A read past the end of the array gives
\* undefined, and any sum or difference with it is NaN.
ReadsNaN(result, k) == k > Len(result.v) \/ k \in result.nan

\* The cell k is an idx1 of the pass: it lies in a row i = 0, 2*step, ... < size.
IsIdx1(k, step, size) ==
  LET r == (k - 1) \div size
  IN  r < size /\ r % (step * 2) = 0

\* The cell k is an idx2 of the pass: it lies step rows below a row i.
IsIdx2(k, step, size) ==
  LET r == (k - 1) \div size
  IN  r >= step /\ (r - step) % (step * 2) = 0 /\ r - step < size

\* One pass: rows i = 0, 2*step, ... below size are paired with rows i + step,
\* whether or not row i + step is inside the grid; result[idx1] takes half the
\* sum of the pair and result[idx2] half their difference.  (A write past the
\* end of the array lengthens it by a NaN, which reads as a read past the end
\* does; such cells are not kept here.)
haarPass(result, step, size) ==
  LET n      == Len(result.v)
      below  == step * size
      bad1(k) == ReadsNaN(result, k) \/ ReadsNaN(result, k + below)
      bad2(k) == ReadsNaN(result, k - below) \/ ReadsNaN(result, k)
  IN  [v   |-> [k \in 1..n |->
                  IF IsIdx1(k, step, size)
                  THEN IF bad1(k) THEN 0
                       ELSE (result.v[k] + result.v[k + below]) \div 2
                  ELSE IF IsIdx2(k, step, size)
                  THEN IF bad2(k) THEN 0
                       ELSE (result.v[k - below] - result.v[k]) \div 2
                  ELSE result.v[k]],
       nan |-> {k \in 1..n :
                  IF IsIdx1(k, step, size) THEN bad1(k)
                  ELSE IF IsIdx2(k, step, size) THEN bad2(k)
                  ELSE k \in result.nan}]

RECURSIVE haarApply(_, _, _)
haarApply(result, steps, size) ==
  IF steps = <<>> THEN result
  ELSE haarApply(haarPass(result, Head(steps), size), Tail(steps), size)

RECURSIVE pow2(_)
pow2(n) == IF n = 0 THEN 1 ELSE 2 * pow2(n - 1)

\* The transform of the pixels, every value scaled by 2 ^ (number of passes)
\* so that each halving is exact.
haarWavelet(pixels, size) ==
  LET steps == haarSteps(1, size)
  IN  haarApply([v   |-> [i \in 1..Len(pixels) |-> pixels[i] * pow2(Len(steps))],
                 nan |-> {}],
                steps, size)

\* The median of values of which those at the places nan are NaN.  The
\* comparator (a, b) => a - b answers NaN for them, so it is not a consistent
\* comparator and the order sort leaves is implementation-defined: the two
\* central elements (the one, for an odd length) may be any of the values, and
\* the median is NaN, written 0/0, when one of them is NaN.
medianWithNaN(values, nan) ==
  IF nan = {} THEN median(values)
  ELSE
    LET good == (1..Len(values)) \ nan
    IN  CHOOSE m \in
          {Ratio(0, 0)}
          \cup (IF Len(values) % 2 = 0
                THEN {Ratio(values[q[1]] + values[q[2]], 2) :
                        q \in {r \in good \X good : r[1] # r[2]}}
                ELSE {Ratio(values[i], 1) : i \in good}) : TRUE

\* gx * gx + gy * gy for every interior pixel, row by row: the square of the
\* magnitude Math.sqrt(gx * gx + gy * gy) the code stores.
calculateGradients(pixels, size) ==
  IF size < 3 THEN <<>>
  ELSE
    [k \in 1..((size - 2) * (size - 2)) |->
       LET y   == ((k - 1) \div (size - 2)) + 1
           x   == ((k - 1) % (size - 2)) + 1
           idx == y * size + x
           gx  == At(pixels, idx + 1) - At(pixels, idx - 1)
           gy  == At(pixels, (y + 1) * size + x) - At(pixels, (y - 1) * size + x)
       IN  gx * gx + gy * gy]

\* median of the magnitudes whose squares are given, as the pair [lo, hi] of
\* squares whose roots it is the mean of (lo = hi for an odd length): the
\* square root keeps the order, so the sort of the squares is that of the roots.
medianOfRoots(squares) ==
  LET sorted == Ascending(squares)
      mid    == Len(sorted) \div 2
  IN  IF Len(sorted) = 0 THEN [lo |-> 0, hi |-> 0]
      ELSE IF Len(sorted) % 2 = 0
      THEN [lo |-> sorted[mid], hi |-> sorted[mid + 1]]
      ELSE [lo |-> sorted[mid + 1], hi |-> sorted[mid + 1]]

\* sqrt(square) > (sqrt(m.lo) + sqrt(m.hi)) / 2, for a square of the sequence
\* the median was taken of (so never strictly between m.lo and m.hi).
RootGtMedian(square, m) == square >= m.hi /\ square > m.lo

(***************************************************************************)
(* Hashing algorithms built on the utilities                               *)
(***************************************************************************)

\* lowFreq = dct[i * size + j] for i, j < min(8, size); value > median(lowFreq).
perceptualHash(image, size) ==
  LET resized == sharpRaw(image, size, size, TRUE)
  IN  IF IsError(resized) THEN resized
      ELSE
        LET m       == IF size < 8 THEN size ELSE 8
            dct     == simpleDCT(resized.data, size, size * size)
            lowFreq == [k \in 1..(m * m) |->
                          dct[((k - 1) \div m) * size + ((k - 1) % m) + 1]]
            med     == median(lowFreq)
        IN  [hash |-> [k \in 1..Len(lowFreq) |-> bit(GtRatio(lowFreq[k], med))]]

\* sharp(resized, raw size x size x 1).blur(1): a grey buffer of size * size
\* samples, each the 1-2-1 weighted mean of its neighbourhood (edges repeat).
sharpBlur(data, size) ==
  LET clamp(i) == IF i < 0 THEN 0 ELSE IF i > size - 1 THEN size - 1 ELSE i
      px(y, x) == At(data, clamp(y) * size + clamp(x))
      row(y, x) == px(y, x - 1) + 2 * px(y, x) + px(y, x + 1)
  IN  [k \in 1..(size * size) |->
         LET y == (k - 1) \div size
             x == (k - 1) % size
         IN  (row(y - 1, x) + 2 * row(y, x) + row(y + 1, x)) \div 16]

\* lowFreq = the first min(2 * size, size * size) coefficients of the DCT of the
\* blurred pixels; value > mean(lowFreq).
advancedPerceptualHash(image, size) ==
  LET resized == sharpRaw(image, size, size, TRUE)
  IN  IF IsError(resized) THEN resized
      ELSE
        LET blurredPixels == sharpBlur(resized.data, size) \o <<>>
            freqCount == IF size * 2 < size * size THEN size * 2 ELSE size * size
            lowFreq   == simpleDCT(blurredPixels, size, freqCount)
            \* value > sum / length, for a whole value, is value > floor(sum / length)
            meanFloor == sumSeq(lowFreq) \div Len(lowFreq)
        IN  [hash |-> [k \in 1..Len(lowFreq) |-> bit(lowFreq[k] > meanFloor)]]

\* The place in the transform of the k-th value pushed to approx: that of
\* wavelet[i * size + j], for i and then j from 0 while below size / 2.
approxAt(k, size) ==
  LET n == (size + 1) \div 2
  IN  ((k - 1) \div n) * size + ((k - 1) % n) + 1

\* approx = wavelet[i * size + j] for i, j < size / 2; value > median(approx),
\* which is false of a value that is NaN.
waveletHash(image, size) ==
  LET resized == sharpRaw(image, size, size, TRUE)
  IN  IF IsError(resized) THEN resized
      ELSE
        LET wavelet == haarWavelet(resized.data, size)
            \* i < size / 2 admits i = 0 .. ceil(size / 2) - 1
            n       == (size + 1) \div 2
            approx  == [k \in 1..(n * n) |-> wavelet.v[approxAt(k, size)]]
            nan     == {k \in 1..(n * n) : approxAt(k, size) \in wavelet.nan}
            threshold == medianWithNaN(approx, nan)
        IN  [hash |-> [k \in 1..Len(approx) |->
                         bit(k \notin nan /\ GtRatio(approx[k], threshold))]]

\* gradient > median(gradients) over the gradient magnitudes.
structuralHash(image, size) ==
  LET resized == sharpRaw(image, size, size, TRUE)
  IN  IF IsError(resized) THEN resized
      ELSE
        LET gradients == calculateGradients(resized.data, size)
            threshold == medianOfRoots(gradients)
        IN  [hash |-> [k \in 1..Len(gradients) |->
                         bit(RootGtMedian(gradients[k], threshold))]]

\* The same computation as structuralHash.
gradientHash(image, size) ==
  LET resized == sharpRaw(image, size, size, TRUE)
  IN  IF IsError(resized) THEN resized
      ELSE
        LET gradients == calculateGradients(resized.data, size)
            threshold == medianOfRoots(gradients)
        IN  [hash |-> [k \in 1..Len(gradients) |->
                         bit(RootGtMedian(gradients[k], threshold))]]

(***************************************************************************)
(* generateHash                                                            *)
(***************************************************************************)

KnownAlgorithms ==
  {"average", "dhash", "phash", "perceptual", "wavelet", "blockhash",
   "structural", "colorhistogram", "gradient"}

\* The switch with a default branch that falls back to the average hash.
dispatchWithFallback(image, algorithm, size) ==
  CASE algorithm = "dhash"          -> differenceHash(image, size)
    [] algorithm = "phash"          -> perceptualHash(image, size)
    [] algorithm = "perceptual"     -> advancedPerceptualHash(image, size)
    [] algorithm = "wavelet"        -> waveletHash(image, size)
    [] algorithm = "blockhash"      -> blockHash(image, size)
    [] algorithm = "structural"     -> structuralHash(image, size)
    [] algorithm = "colorhistogram" -> colorHistogramHash(image, size)
    [] algorithm = "gradient"       -> gradientHash(image, size)
    [] OTHER -> averageHash(image, size)

\* The switch called with the size of the instance's level 1, when it has one,
\* in place of the size argument.
dispatchInstanceSize(image, algorithm, size) ==
  LET n == IF Truthy(Get(options, "level1")) THEN options["level1"].size ELSE size
  IN  CASE algorithm = "average"        -> averageHash(image, n)
        [] algorithm = "dhash"          -> differenceHash(image, n)
        [] algorithm = "phash"          -> perceptualHash(image, n)
        [] algorithm = "perceptual"     -> advancedPerceptualHash(image, n)
        [] algorithm = "wavelet"        -> waveletHash(image, n)
        [] algorithm = "blockhash"      -> blockHash(image, n)
        [] algorithm = "structural"     -> structuralHash(image, n)
        [] algorithm = "colorhistogram" -> colorHistogramHash(image, n)
        [] algorithm = "gradient"       -> gradientHash(image, n)
        [] OTHER -> [error |-> "Unknown hashing algorithm", algorithm |-> algorithm]

\* The switch: the kernel's result, or the default branch's Error.
dispatch(image, algorithm, size) ==
  CASE algorithm = "average"        -> averageHash(image, size)
    [] algorithm = "dhash"          -> differenceHash(image, size)
    [] algorithm = "phash"          -> perceptualHash(image, size)
    [] algorithm = "perceptual"     -> advancedPerceptualHash(image, size)
    [] algorithm = "wavelet"        -> waveletHash(image, size)
    [] algorithm = "blockhash"      -> blockHash(image, size)
    [] algorithm = "structural"     -> structuralHash(image, size)
    [] algorithm = "colorhistogram" -> colorHistogramHash(image, size)
    [] algorithm = "gradient"       -> gradientHash(image, size)
    [] OTHER -> [error |-> "Unknown hashing algorithm", algorithm |-> algorithm]

\* confidence, in hundredths.
confidenceOf(algorithm) ==
  CASE algorithm = "perceptual"     -> 95
    [] algorithm = "wavelet"        -> 92
    [] algorithm = "blockhash"      -> 90
    [] algorithm = "structural"     -> 88
    [] algorithm = "colorhistogram" -> 85
    [] algorithm = "gradient"       -> 87
    [] OTHER -> 100

metadataOf(algorithm, size) ==
  CASE algorithm = "structural"     -> [size |-> size, structuralFeatures |-> TRUE]
    [] algorithm = "colorhistogram" -> [size |-> size, colorAnalysis |-> TRUE]
    [] algorithm = "gradient"       -> [size |-> size, gradientAnalysis |-> TRUE]
    [] OTHER -> [size |-> size]

\* generateHash decoding the buffer before it looks at the name.
generateHashDecodeFirst(image, algorithm, size) ==
  IF ~image.decodable
  THEN [error     |-> "Hash generation failed",
        algorithm |-> algorithm,
        cause     |-> "Input buffer contains unsupported image format"]
  ELSE
    LET r == dispatch(image, algorithm, size)
    IN  IF IsError(r)
        THEN [error     |-> "Hash generation failed",
              algorithm |-> algorithm,
              cause     |-> r.error]
        ELSE [hash       |-> r.hash,
              algorithm  |-> algorithm,
              confidence |-> confidenceOf(algorithm),
              metadata   |-> metadataOf(algorithm, size)]

\* The HashResult, or the Error the catch block rethrows: "Hash generation
\* failed for algorithm <algorithm>: <cause>", its cause kept.
generateHash(image, algorithm, size) ==
  LET r == dispatch(image, algorithm, size)
  IN  IF IsError(r)
      THEN [error     |-> "Hash generation failed",
            algorithm |-> algorithm,
            cause     |-> r.error]
      ELSE [hash       |-> r.hash,
            algorithm  |-> algorithm,
            confidence |-> confidenceOf(algorithm),
            metadata   |-> metadataOf(algorithm, size)]

(***************************************************************************)
(* Inputs: image buffers                                                   *)
(***************************************************************************)

Picture(px) == [decodable |-> TRUE, alpha |-> FALSE, w |-> 4, h |-> 4, px |-> px]

\* A left-to-right ramp.
ImgRamp ==
  Picture(<< 10,  80, 160, 240,
             10,  80, 160, 240,
             10,  80, 160, 240,
             10,  80, 160, 240>>)

\* The ramp with its middle touched.
ImgRampDot ==
  Picture(<< 10,  80, 160, 240,
             10, 200,  40, 240,
             10,  80, 160, 240,
             10,  80, 160, 240>>)

\* A right-to-left ramp with a dark bottom row.
ImgBack ==
  Picture(<<240, 160,  80,  10,
            240, 160,  80,  10,
            250, 130, 120,  10,
              0,   0,   0,   0>>)

\* The ramp, stored with an alpha channel.
ImgRampAlpha == [ImgRamp EXCEPT !.alpha = TRUE]

\* A buffer that is not an image (Buffer.from('')).
ImgEmpty == [decodable |-> FALSE, alpha |-> FALSE, w |-> 0, h |-> 0, px |-> <<>>]

Images == {ImgRamp, ImgRampDot, ImgBack, ImgRampAlpha, ImgEmpty}

\* A picture of 2 by 2 pixels: fewer than any grid of size 4 samples.
ImgTiny ==
  [decodable |-> TRUE, alpha |-> FALSE, w |-> 2, h |-> 2, px |-> <<10, 200, 90, 30>>]

(***************************************************************************)
(* Inputs: options                                                         *)
(***************************************************************************)

Tier(algorithm, size, threshold) ==
  [algorithm |-> algorithm, size |-> size, threshold |-> threshold]

Semantic(enabled, semanticThreshold) ==
  [enabled |-> enabled, semanticThreshold |-> semanticThreshold]

\* A level 4 object that also names its optional apiEndpoint.
SemanticAt(enabled, semanticThreshold, apiEndpoint) ==
  [enabled |-> enabled, semanticThreshold |-> semanticThreshold,
   apiEndpoint |-> apiEndpoint]

\* VisualHasher.defaultOptions
defaultOptions ==
  [level1 |-> Tier("dhash", 8, 95),
   level2 |-> Tier("perceptual", 16, 90),
   level3 |-> Tier("structural", 32, 85),
   level4 |-> Semantic(TRUE, 80)]

\* What a caller may pass for each level.  "bogus" is a name generateHash does
\* not know; an entry may also be given as undefined, which unsets the level.
Level1Choices ==
  {Undefined, Tier("dhash", 2, 75), Tier("average", 2, 100), Tier("bogus", 2, 75)}

Level2Choices ==
  {Undefined, Tier("blockhash", 2, 50), Tier("average", 2, 50), Tier("bogus", 2, 50)}

Level3Choices == {Undefined, Tier("gradient", 4, 50), Tier("bogus", 4, 50)}

Level4Choices == {Undefined, Semantic(FALSE, 80), Semantic(TRUE, 60)}

\* The options of the test "should indicate API analysis needed for level 4".
StrictOptions ==
  [level1 |-> Tier("dhash", 8, 99),
   level2 |-> Tier("perceptual", 16, 99),
   level3 |-> Tier("structural", 32, 99),
   level4 |-> Semantic(TRUE, 80)]

\* Arguments of the constructor: an object naming every level.
CtorOptions ==
  {[level1 |-> l1, level2 |-> l2, level3 |-> l3, level4 |-> l4] :
          l1 \in Level1Choices, l2 \in Level2Choices,
          l3 \in Level3Choices, l4 \in Level4Choices}

\* The options of the test 'should handle custom options': level 1 alone.
CustomOptions == [level1 |-> Tier("average", 8, 99)]

\* Arguments of the constructor that leave the levels at their documented
\* sizes: none (new VisualHasher()), the strict options, or level 1 alone.
DocumentedCtorOptions == {NoOptions, StrictOptions, CustomOptions}

\* The buffers given to the instances of documented sizes.
DocumentedImages == {ImgRamp, ImgRampDot, ImgEmpty}

\* Arguments of a progressiveCompare call: none, or an object naming some levels.
CallOptions ==
  {NoOptions,
   [level1 |-> Tier("average", 4, 99), level2 |-> Undefined],
   [level4 |-> Semantic(FALSE, 80)]}

(***************************************************************************)
(* The hasher instance and progressiveCompare                              *)
(***************************************************************************)

Levels == 1..3

LevelKey(k) ==
  CASE k = 1 -> "level1" [] k = 2 -> "level2" [] k = 3 -> "level3" [] OTHER -> "level4"

Idle == <<0, "idle">>

Done == <<5, "done">>

\* similarity > threshold
thresholdMetStrict(result, tier) == RatioGt(result.similarity, tier.threshold)

\* similarity <= threshold
thresholdMetReversed(result, tier) ==
  result.similarity.num * 100 <= tier.threshold * result.similarity.den

\* similarity >= threshold
thresholdMet(result, tier) == RatioGEq(result.similarity, tier.threshold)

\* opts.level4?.enabled && opts.level4.apiEndpoint
level4EnabledWithEndpoint(o) ==
  IF Truthy(Get(o, "level4"))
  THEN Get(o, "level4").enabled /\ "apiEndpoint" \in DOMAIN Get(o, "level4")
  ELSE FALSE

\* opts.level4?.enabled
level4Enabled(o) ==
  IF Truthy(Get(o, "level4")) THEN Get(o, "level4").enabled ELSE FALSE

\* A level's return that reports the level after its own.
levelOutcomeOffByOne(k, result) ==
  [kind |-> "return", level |-> k + 1, result |-> result, shouldContinue |-> FALSE]

\* A level's return that asks the caller to go on.
levelOutcomeContinue(k, result) ==
  [kind |-> "return", level |-> k, result |-> result, shouldContinue |-> TRUE]

\* The value returned when a level's similarity meets its threshold.
levelOutcome(k, result) ==
  [kind |-> "return", level |-> k, result |-> result, shouldContinue |-> FALSE]

\* The result object of both returns that follow level 3.
placeholderResult(algorithm) ==
  [identical   |-> FALSE,
   similarity  |-> Ratio(0, 1),
   algorithm   |-> algorithm,
   differences |-> [count |-> 0, positions |-> <<>>, severity |-> "high"]]

\* The code after level 3 with the level 4 return not guarded by enabled.
finalOutcomeUnguarded(o) ==
  [kind |-> "return", level |-> 4,
   result |-> placeholderResult("semantic"), shouldContinue |-> TRUE]

\* The code after level 3 without the level 4 block.
finalOutcomeNoHandOff(o) ==
  [kind |-> "return", level |-> 3,
   result |-> placeholderResult("progressive"), shouldContinue |-> FALSE]

\* if (opts.level4?.enabled) return { level: 4, ..., shouldContinue: true }
\* return { level: 3, ..., shouldContinue: false }
finalOutcome(o) ==
  IF level4Enabled(o)
  THEN [kind |-> "return", level |-> 4,
        result |-> placeholderResult("semantic"), shouldContinue |-> TRUE]
  ELSE [kind |-> "return", level |-> 3,
        result |-> placeholderResult("progressive"), shouldContinue |-> FALSE]

\* A failure caught and turned into the final return.
thrownSwallowed(e) ==
  [kind |-> "return", level |-> 3,
   result |-> placeholderResult("progressive"), shouldContinue |-> FALSE]

thrown(e) == [kind |-> "throw", error |-> e]

\* The levels of the small configurations, and generateHash tabulated on them:
\* a hash depends on the image, the algorithm and the size alone, so one
\* evaluation serves every call that makes it.
TabulatedTiers ==
  (Level1Choices \cup Level2Choices \cup Level3Choices \cup {Tier("average", 4, 99)})
    \ {Undefined}

generateHashTable ==
  [image \in Images |->
    [tier \in TabulatedTiers |-> generateHash(image, tier.algorithm, tier.size)]]

\* await this.generateHash(image, opts.levelK.algorithm, opts.levelK.size)
generateHashFor(image, tier) ==
  IF tier \in TabulatedTiers
  THEN generateHashTable[image][tier]
  ELSE generateHash(image, tier.algorithm, tier.size)

\* Entries of the trace: a call made at level k and what it gave.
HashEvent(k, which, r) ==
  [op |-> "generateHash", level |-> k, image |-> which, result |-> r]

CompareEvent(k, r) == [op |-> "compareHashes", level |-> k, result |-> r]

\* Control that comes back to the block it leaves.
nextLevelAgain(k) == k

\* Control leaves the block of level k without returning: the next block.
nextLevel(k) == k + 1

\* The invocations of progressiveCompare that may be in progress at once.
MaxCalls == 2

CallIds == 1..MaxCalls

\* The locals of one invocation: its arguments, opts, hash1, hash2, where it
\* stands, and what it settled with.  No invocation is in progress in IdleFrame.
\* (overlapped is history: another invocation ran while this one was suspended.)
Frame(at, i1, i2, o, merged) ==
  [pc |-> at, image1 |-> i1, image2 |-> i2, options |-> o, opts |-> merged,
   hash1 |-> Undefined, hash2 |-> Undefined, outcome |-> Undefined,
   overlapped |-> FALSE]

IdleFrame == Frame(Idle, Undefined, Undefined, Undefined, Undefined)

\* new VisualHasher(ctorOptions); no call is in progress.
InitHasher(ctorOptions) ==
  /\ ctorArg = ctorOptions
  /\ options = Spread(defaultOptions, ctorOptions)
  /\ callOptions = Undefined
  /\ overridden = FALSE
  /\ pc = Idle
  /\ image1 = Undefined
  /\ image2 = Undefined
  /\ opts = Undefined
  /\ hash1 = Undefined
  /\ hash2 = Undefined
  /\ outcome = Undefined
  /\ trace = <<>>
  /\ cmpArgs = Undefined
  /\ cmpResult = Undefined
  /\ genArgs = Undefined
  /\ genResult = Undefined
  /\ genSeen = Undefined
  /\ calls = [id \in CallIds |-> IdleFrame]
  /\ kern = Undefined

Init == \E c \in CtorOptions : InitHasher(c)

\* progressiveCompare keeping the merged options on the instance:
\* this.options = { ...this.options, ...options }
ProgressiveCompareStoring(i1, i2, o) ==
  /\ pc = Idle
  /\ pc' = <<1, "enter">>
  /\ image1' = i1
  /\ image2' = i2
  /\ callOptions' = o
  /\ options' = Spread(options, o)
  /\ opts' = options'
  /\ hash1' = Undefined
  /\ hash2' = Undefined
  /\ outcome' = Undefined
  /\ trace' = <<>>
  /\ overridden' = (overridden \/ o # NoOptions)
  /\ UNCHANGED <<ctorArg, cmpArgs, cmpResult, genVars, calls, kern>>

\* progressiveCompare(i1, i2, o): const opts = { ...this.options, ...options }
ProgressiveCompare(i1, i2, o) ==
  /\ pc = Idle
  /\ pc' = <<1, "enter">>
  /\ image1' = i1
  /\ image2' = i2
  /\ callOptions' = o
  /\ opts' = Spread(options, o)
  /\ hash1' = Undefined
  /\ hash2' = Undefined
  /\ outcome' = Undefined
  /\ trace' = <<>>
  /\ overridden' = (overridden \/ o # NoOptions)
  /\ UNCHANGED <<ctorArg, options, cmpArgs, cmpResult, genVars, calls, kern>>

\* if (opts.levelK) is false: on to the next block.
SkipLevel(k) ==
  /\ pc = <<k, "enter">>
  /\ ~Truthy(Get(opts, LevelKey(k)))
  /\ pc' = <<nextLevel(k), "enter">>
  /\ UNCHANGED <<ctorArg, callVars, options, image1, image2, opts, hash1, hash2, outcome, trace,
                 cmpArgs, cmpResult, genVars>>

\* const hash1 = await this.generateHash(image1, algorithm, size)
GenerateHash1(k) ==
  /\ pc = <<k, "enter">>
  /\ Truthy(Get(opts, LevelKey(k)))
  /\ \E r \in {generateHashFor(image1, Get(opts, LevelKey(k)))} :
         /\ trace' = Append(trace, HashEvent(k, 1, r))
         /\ IF IsError(r)
            THEN /\ outcome' = thrown(r)
                 /\ pc' = Done
                 /\ UNCHANGED hash1
            ELSE /\ hash1' = r
                 /\ pc' = <<k, "hash2">>
                 /\ UNCHANGED outcome
  /\ UNCHANGED <<ctorArg, callVars, options, image1, image2, opts, hash2, cmpArgs, cmpResult, genVars>>

\* const hash2 = await this.generateHash(image2, algorithm, size)
GenerateHash2(k) ==
  /\ pc = <<k, "hash2">>
  /\ \E r \in {generateHashFor(image2, Get(opts, LevelKey(k)))} :
         /\ trace' = Append(trace, HashEvent(k, 2, r))
         /\ IF IsError(r)
            THEN /\ outcome' = thrown(r)
                 /\ pc' = Done
                 /\ UNCHANGED hash2
            ELSE /\ hash2' = r
                 /\ pc' = <<k, "compare">>
                 /\ UNCHANGED outcome
  /\ UNCHANGED <<ctorArg, callVars, options, image1, image2, opts, hash1, cmpArgs, cmpResult, genVars>>

\* The block of level k without its return: the threshold test has no effect
\* on control, which goes on to the next block.
CompareLevelNoReturn(k) ==
  /\ pc = <<k, "compare">>
  /\ LET tier   == Get(opts, LevelKey(k))
          result == compareHashes(hash1.hash, hash2.hash, tier.algorithm)
     IN  /\ trace' = Append(trace, CompareEvent(k, result))
         /\ IF IsError(result)
            THEN /\ outcome' = thrown(result)
                 /\ pc' = Done
            ELSE /\ pc' = <<nextLevel(k), "enter">>
                 /\ UNCHANGED outcome
  /\ hash1' = Undefined
  /\ hash2' = Undefined
  /\ UNCHANGED <<ctorArg, callVars, options, image1, image2, opts, cmpArgs, cmpResult, genVars>>

\* const result = this.compareHashes(hash1.hash, hash2.hash, algorithm);
\* if (result.similarity >= threshold) return { level: k, result, ... }
CompareLevel(k) ==
  /\ pc = <<k, "compare">>
  /\ LET tier   == Get(opts, LevelKey(k))
          result == compareHashes(hash1.hash, hash2.hash, tier.algorithm)
     IN  /\ trace' = Append(trace, CompareEvent(k, result))
         /\ IF IsError(result)
            THEN /\ outcome' = thrown(result)
                 /\ pc' = Done
            ELSE IF thresholdMet(result, tier)
            THEN /\ outcome' = levelOutcome(k, result)
                 /\ pc' = Done
            ELSE /\ pc' = <<nextLevel(k), "enter">>
                 /\ UNCHANGED outcome
  /\ hash1' = Undefined
  /\ hash2' = Undefined
  /\ UNCHANGED <<ctorArg, callVars, options, image1, image2, opts, cmpArgs, cmpResult, genVars>>

\* The code after the level 3 block: the level 4 hand-off or the final return.
Level4 ==
  /\ pc = <<4, "enter">>
  /\ outcome' = finalOutcome(opts)
  /\ pc' = Done
  /\ UNCHANGED <<ctorArg, callVars, options, image1, image2, opts, hash1, hash2, trace,
                 cmpArgs, cmpResult, genVars>>

\* The caller has the settled promise; the instance is ready for another call.
Settle ==
  /\ pc = Done
  /\ pc' = Idle
  /\ image1' = Undefined
  /\ image2' = Undefined
  /\ opts' = Undefined
  /\ hash1' = Undefined
  /\ hash2' = Undefined
  /\ outcome' = Undefined
  /\ trace' = <<>>
  /\ callOptions' = Undefined
  /\ UNCHANGED <<ctorArg, options, cmpArgs, cmpResult, genVars, overridden, calls, kern>>

Step ==
  \/ \E k \in Levels : SkipLevel(k)
  \/ \E k \in Levels : GenerateHash1(k)
  \/ \E k \in Levels : GenerateHash2(k)
  \/ \E k \in Levels : CompareLevel(k)
  \/ Level4

Next ==
  \/ \E i1 \in Images, i2 \in Images, o \in CallOptions : ProgressiveCompare(i1, i2, o)
  \/ Step
  \/ Settle

Spec == Init /\ [][Next]_vars

\* The same hasher, constructed with the documented level sizes.
InitDocumented == \E c \in DocumentedCtorOptions : InitHasher(c)

NextDocumented ==
  \/ \E i1 \in DocumentedImages, i2 \in DocumentedImages, o \in CallOptions :
       ProgressiveCompare(i1, i2, o)
  \/ Step
  \/ Settle

SpecDocumented == InitDocumented /\ [][NextDocumented]_vars

\* A pending generateHash settles and the continuation of the await runs: the
\* event loop does not starve a ready continuation.
LiveSpec == Spec /\ WF_vars(Step)

(***************************************************************************)
(* Direct calls of compareHashes                                           *)
(***************************************************************************)

MaxHashLen == 5

RECURSIVE StringsOfLen(_)
StringsOfLen(n) ==
  IF n = 0 THEN {<<>>}
  ELSE {Append(s, c) : s \in StringsOfLen(n - 1), c \in {"0", "1"}}

HashStrings == UNION {StringsOfLen(n) : n \in 0..MaxHashLen}

\* The strings of the test suite: '1010101010101010', the same with its last
\* bit set, sixteen zeros, and the first without its last bit.
TestHash1010 ==
  <<"1", "0", "1", "0", "1", "0", "1", "0", "1", "0", "1", "0", "1", "0", "1", "0">>

TestHash1011 ==
  <<"1", "0", "1", "0", "1", "0", "1", "0", "1", "0", "1", "0", "1", "0", "1", "1">>

TestHashZeros ==
  <<"0", "0", "0", "0", "0", "0", "0", "0", "0", "0", "0", "0", "0", "0", "0", "0">>

TestHashShort ==
  <<"1", "0", "1", "0", "1", "0", "1", "0", "1", "0", "1", "0", "1", "0", "1">>

\* The strings given to direct calls, and the algorithm labels: two names the
\* hasher knows and one it does not (compareHashes only copies the label).
CompareInputs ==
  HashStrings \cup {TestHash1010, TestHash1011, TestHashZeros, TestHashShort}

CompareLabels == {"dhash", "average", "bogus"}

\* hasher.compareHashes(h1, h2, algorithm)
CompareHashesCall(h1, h2, algorithm) ==
  /\ cmpArgs = Undefined
  /\ cmpArgs' = [hash1 |-> h1, hash2 |-> h2, algorithm |-> algorithm]
  /\ cmpResult' = compareHashes(h1, h2, algorithm)
  /\ UNCHANGED <<ctorArg, callVars, options, pc, image1, image2, opts, hash1, hash2, outcome, trace,
                 genVars>>

\* The caller has the result; the hasher is ready for another call.
CompareSettle ==
  /\ cmpArgs # Undefined
  /\ cmpArgs' = Undefined
  /\ cmpResult' = Undefined
  /\ UNCHANGED <<ctorArg, callVars, options, pc, image1, image2, opts, hash1, hash2, outcome, trace,
                 genVars>>

\* A direct call on any of the inputs, when none is being looked at.
CompareHashesAny ==
  /\ cmpArgs = Undefined
  /\ \E h1 \in CompareInputs, h2 \in CompareInputs, a \in CompareLabels :
       CompareHashesCall(h1, h2, a)

NextCompare ==
  \/ CompareHashesAny
  \/ CompareSettle

SpecCompare == InitHasher(NoOptions) /\ [][NextCompare]_vars

(***************************************************************************)
(* Direct calls of generateHash, on one hasher instance after another      *)
(***************************************************************************)

\* The buffers, names and sizes given to direct calls: a picture, a picture
\* with an alpha channel, an empty buffer and a picture of 2 by 2 pixels; the nine names of the switch and
\* one it does not have; two grid sizes and the size 0, which sharp rejects.
GenImages == {ImgRamp, ImgRampAlpha, ImgEmpty, ImgTiny}

GenAlgorithms == KnownAlgorithms \cup {"bogus"}

GenSizes == {0, 2, 4}

\* The instances the calls are made on.
GenCtorOptions ==
  {[level1 |-> Tier("average", 2, 100)],
   [level1 |-> Tier("dhash", 4, 75), level4 |-> Undefined]}

\* await hasher.generateHash(image, algorithm, size); genSeen keeps the first
\* call made, for later calls to be set against.
GenerateHashCall(image, algorithm, size) ==
  /\ genArgs = Undefined
  /\ genArgs' = [image |-> image, algorithm |-> algorithm, size |-> size]
  /\ genResult' = generateHash(image, algorithm, size)
  /\ genSeen' = IF genSeen = Undefined
                THEN [args |-> genArgs', result |-> genResult', instance |-> options]
                ELSE genSeen
  /\ UNCHANGED <<ctorArg, callVars, options, pc, image1, image2, opts, hash1, hash2, outcome, trace,
                 cmpArgs, cmpResult>>

\* The caller has the settled promise.
GenerateSettle ==
  /\ genArgs # Undefined
  /\ genArgs' = Undefined
  /\ genResult' = Undefined
  /\ UNCHANGED <<ctorArg, callVars, options, pc, image1, image2, opts, hash1, hash2, outcome, trace,
                 cmpArgs, cmpResult, genSeen>>

\* new VisualHasher(ctorOptions): the calls that follow are made on another
\* instance.
NewHasher(ctorOptions) ==
  /\ genArgs = Undefined
  /\ ctorArg' = ctorOptions
  /\ options' = Spread(defaultOptions, ctorOptions)
  /\ options' # options
  /\ overridden' = FALSE
  /\ UNCHANGED <<callOptions, pc, image1, image2, opts, hash1, hash2, outcome, trace,
                 cmpArgs, cmpResult, genVars, calls, kern>>

NextGenerate ==
  \/ \E image \in GenImages, algorithm \in GenAlgorithms, size \in GenSizes :
       GenerateHashCall(image, algorithm, size)
  \/ GenerateSettle
  \/ \E c \in GenCtorOptions : NewHasher(c)

InitGenerate == \E c \in GenCtorOptions : InitHasher(c)

SpecGenerate == InitGenerate /\ [][NextGenerate]_vars

(***************************************************************************)
(* The three kinds of call on one instance, in any order and interleaving  *)
(***************************************************************************)

CallsCtorOptions ==
  {[level1 |-> Tier("dhash", 2, 75), level2 |-> Tier("blockhash", 2, 50),
    level3 |-> Undefined, level4 |-> Semantic(TRUE, 60)],
   [level1 |-> Undefined, level2 |-> Tier("bogus", 2, 50),
    level3 |-> Tier("gradient", 4, 50), level4 |-> Undefined]}

CallsImages == {ImgRamp, ImgBack, ImgEmpty}

CallsHashes == {<<"1", "0">>, <<"1">>}

NextCalls ==
  \/ \E i1 \in CallsImages, i2 \in CallsImages, o \in CallOptions :
       ProgressiveCompare(i1, i2, o)
  \/ Step
  \/ Settle
  \/ \E image \in {ImgRamp, ImgEmpty} : GenerateHashCall(image, "dhash", 2)
  \/ GenerateSettle
  \/ \E h1 \in CallsHashes, h2 \in CallsHashes : CompareHashesCall(h1, h2, "dhash")
  \/ CompareSettle

InitCalls == \E c \in CallsCtorOptions : InitHasher(c)

SpecCalls == InitCalls /\ [][NextCalls]_vars

\* progressiveCompare(i1, i2) as one function of the configuration o of the
\* call, from the block of level k on: what the blocks return or throw.
RECURSIVE progressiveCompareFrom(_, _, _, _)
progressiveCompareFrom(o, i1, i2, k) ==
  IF k > 3 THEN finalOutcome(o)
  ELSE IF ~Truthy(Get(o, LevelKey(k))) THEN progressiveCompareFrom(o, i1, i2, k + 1)
  ELSE
    LET tier == Get(o, LevelKey(k))
        h1   == generateHashFor(i1, tier)
        h2   == generateHashFor(i2, tier)
        r    == compareHashes(h1.hash, h2.hash, tier.algorithm)
    IN  IF IsError(h1) THEN thrown(h1)
        ELSE IF IsError(h2) THEN thrown(h2)
        ELSE IF IsError(r) THEN thrown(r)
        ELSE IF thresholdMet(r, tier) THEN levelOutcome(k, r)
        ELSE progressiveCompareFrom(o, i1, i2, k + 1)

(***************************************************************************)
(* Direct calls of the utility functions, and the places the kernels read  *)
(***************************************************************************)

\* The largest grid size and the longest array given to the utilities.
MaxSize == 4

MaxValues == 4

\* The places (0-based) of the pixel array that the loops of differenceHash
\* read: pixels[y * (size + 1) + x] and the one after it, for y, x < size.
differenceHashReads(size) ==
  UNION {{y * (size + 1) + x, y * (size + 1) + x + 1} :
           y \in 0..(size - 1), x \in 0..(size - 1)}

\* blockHash: pixels[py * (size * 4) + px] for px = bx * 4 + x, py = by * 4 + y.
blockHashReads(size) ==
  {(by * 4 + y) * (size * 4) + (bx * 4 + x) :
     by \in 0..(size - 1), bx \in 0..(size - 1), y \in 0..3, x \in 0..3}

\* calculateGradients: the four neighbours of idx = y * size + x, for
\* y, x from 1 while below size - 1.
calculateGradientsReads(size) ==
  UNION {{y * size + x + 1, y * size + x - 1, (y + 1) * size + x, (y - 1) * size + x} :
           y \in 1..(size - 2), x \in 1..(size - 2)}

\* perceptualHash: dct[i * size + j] for i, j < Math.min(8, size).
lowFreqReads(size) ==
  LET m == IF size < 8 THEN size ELSE 8
  IN  {i * size + j : i \in 0..(m - 1), j \in 0..(m - 1)}

\* haarWavelet: idx1 = i * size + j and idx2 = (i + step) * size + j, for
\* step = 1, 2, 4, ... below size, i = 0, 2 * step, ... below size, j < size.
haarWaveletReads(size) ==
  LET steps == haarSteps(1, size)
      rows  == 0..(size - 1)
      \* <<step, i, j>> of every turn of the innermost loop
      turns == {t \in {steps[s] : s \in DOMAIN steps} \X rows \X rows :
                  t[2] % (2 * t[1]) = 0}
  IN  UNION {{t[2] * size + t[3], (t[2] + t[1]) * size + t[3]} : t \in turns}

\* What the values of the transform are made of, cell by cell of the grid:
\* a cell written as result[idx1] = avg holds an average of the pair, one
\* written as result[idx2] = diff a difference; a cell no pass wrote holds
\* the sample copied into it.
haarKindPass(kinds, step, size) ==
  [k \in 1..Len(kinds) |->
     IF IsIdx1(k, step, size) THEN "average"
     ELSE IF IsIdx2(k, step, size) THEN "difference"
     ELSE kinds[k]]

RECURSIVE haarKindApply(_, _, _)
haarKindApply(kinds, steps, size) ==
  IF steps = <<>> THEN kinds
  ELSE haarKindApply(haarKindPass(kinds, Head(steps), size), Tail(steps), size)

haarKinds(size) ==
  haarKindApply([k \in 1..(size * size) |-> "sample"], haarSteps(1, size), size)

\* The kernels whose reads are looked at, the places each reads, and the
\* length of the grid it reads them from.
IndexedKernels == {"differenceHash", "blockHash", "calculateGradients", "perceptualHash"}

readsOf(kernel, size) ==
  CASE kernel = "differenceHash"     -> differenceHashReads(size)
    [] kernel = "blockHash"          -> blockHashReads(size)
    [] kernel = "calculateGradients" -> calculateGradientsReads(size)
    [] kernel = "perceptualHash"     -> lowFreqReads(size)
    [] kernel = "haarWavelet"        -> haarWaveletReads(size)

gridLength(kernel, size) ==
  CASE kernel = "differenceHash" -> (size + 1) * (size + 1)
    [] kernel = "blockHash"      -> (size * 4) * (size * 4)
    [] OTHER                     -> size * size

\* The arrays given to median: every array of up to MaxValues numbers of
\* 1..3, and the three of the test suite.
RECURSIVE ValuesOfLen(_)
ValuesOfLen(n) ==
  IF n = 0 THEN {<<>>}
  ELSE {Append(v, x) : v \in ValuesOfLen(n - 1), x \in 1..3}

MedianInputs ==
  UNION {ValuesOfLen(n) : n \in 0..MaxValues}
    \cup {<<1, 2, 3, 4, 5>>, <<1, 2, 3, 4>>, <<1>>}

KernelImages == {ImgRamp, ImgBack, ImgTiny}

\* hasher.median(values): the caller's array before and after, and the result.
MedianCall(values) ==
  /\ kern' = [op |-> "median", values |-> values,
               after |-> sortedInCopy(values), result |-> median(values)]
  /\ UNCHANGED <<ctorArg, options, pc, image1, image2, opts, hash1, hash2, outcome,
                 trace, cmpArgs, cmpResult, genVars, callOptions, overridden, calls>>

\* hasher.haarWavelet(pixels, size) on the size x size grey samples of an image.
HaarWaveletCall(image, size) ==
  /\ kern' = [op |-> "haarWavelet", size |-> size,
               result |-> haarWavelet(sharpRaw(image, size, size, TRUE).data, size),
               kinds |-> haarKinds(size),
               reads |-> readsOf("haarWavelet", size),
               grid |-> gridLength("haarWavelet", size)]
  /\ UNCHANGED <<ctorArg, options, pc, image1, image2, opts, hash1, hash2, outcome,
                 trace, cmpArgs, cmpResult, genVars, callOptions, overridden, calls>>

\* The loops of a kernel run over a grid of the size given.
KernelLoops(kernel, size) ==
  /\ kern' = [op |-> kernel, size |-> size,
               reads |-> readsOf(kernel, size), grid |-> gridLength(kernel, size)]
  /\ UNCHANGED <<ctorArg, options, pc, image1, image2, opts, hash1, hash2, outcome,
                 trace, cmpArgs, cmpResult, genVars, callOptions, overridden, calls>>

\* The caller has the result.
KernelSettle ==
  /\ kern # Undefined
  /\ kern' = Undefined
  /\ UNCHANGED <<ctorArg, options, pc, image1, image2, opts, hash1, hash2, outcome,
                 trace, cmpArgs, cmpResult, genVars, callOptions, overridden, calls>>

\* A direct call, when none is being looked at.
KernelAny ==
  /\ kern = Undefined
  /\ \/ \E values \in MedianInputs : MedianCall(values)
     \/ \E image \in KernelImages, size \in 1..MaxSize : HaarWaveletCall(image, size)
     \/ \E kernel \in IndexedKernels, size \in 1..MaxSize : KernelLoops(kernel, size)

NextKernels ==
  \/ KernelAny
  \/ KernelSettle

SpecKernels == InitHasher(NoOptions) /\ [][NextKernels]_vars

(***************************************************************************)
(* Invocations of progressiveCompare that overlap on one instance          *)
(***************************************************************************)

\* The instances: the module singleton (new VisualHasher()) and one with
\* small levels and level 4 disabled.
ReentrantCtorOptions ==
  {NoOptions,
   [level1 |-> Tier("dhash", 2, 75), level2 |-> Tier("blockhash", 2, 50),
    level3 |-> Undefined, level4 |-> Semantic(FALSE, 80)]}

\* The image pairs and the per-call options of the overlapping invocations.
\* The last two options differ in level4.semanticThreshold and
\* level4.apiEndpoint alone.
ReentrantPairs == {<<ImgRamp, ImgRamp>>, <<ImgRamp, ImgBack>>}

ReentrantCallOptions ==
  {[level1 |-> Tier("average", 4, 99), level2 |-> Undefined, level3 |-> Undefined],
   [level1 |-> Tier("dhash", 2, 75), level2 |-> Tier("average", 2, 50),
    level3 |-> Undefined, level4 |-> Semantic(TRUE, 80)],
   [level1 |-> Tier("dhash", 2, 75), level2 |-> Tier("average", 2, 50),
    level3 |-> Undefined,
    level4 |-> SemanticAt(TRUE, 60, "https://api.example/semantic")]}

\* Locals kept in fields of the instance: what one invocation stores in hash1
\* and hash2 is what every invocation in progress finds there.
storeLocalsOnInstance(cs, id, f) ==
  [j \in DOMAIN cs |->
     IF j = id THEN f
     ELSE IF cs[j].pc \in {Idle, Done} THEN cs[j]
     ELSE [cs[j] EXCEPT !.hash1 = f.hash1, !.hash2 = f.hash2]]

\* opts, hash1 and hash2 are const locals of the invocation (and of the block):
\* a continuation writes the frame of its own invocation and no other.
storeLocals(cs, id, f) == [cs EXCEPT ![id] = f]

\* What a suspended invocation does when it is resumed, up to its next await,
\* return or throw: the code of SkipLevel, GenerateHash1, GenerateHash2,
\* CompareLevel and Level4 on the locals of the frame f.
resume(f) ==
  LET k    == f.pc[1]
      tier == Get(f.opts, LevelKey(k))
  IN  IF k > 3
      THEN [f EXCEPT !.outcome = finalOutcome(f.opts), !.pc = Done]
      ELSE IF f.pc[2] = "enter" /\ ~Truthy(tier)
      THEN [f EXCEPT !.pc = <<nextLevel(k), "enter">>]
      ELSE IF f.pc[2] = "enter"
      THEN LET r == generateHashFor(f.image1, tier)
           IN  IF IsError(r)
               THEN [f EXCEPT !.outcome = thrown(r), !.pc = Done]
               ELSE [f EXCEPT !.hash1 = r, !.pc = <<k, "hash2">>]
      ELSE IF f.pc[2] = "hash2"
      THEN LET r == generateHashFor(f.image2, tier)
           IN  IF IsError(r)
               THEN [f EXCEPT !.outcome = thrown(r), !.pc = Done]
               ELSE [f EXCEPT !.hash2 = r, !.pc = <<k, "compare">>]
      ELSE LET result == compareHashes(f.hash1.hash, f.hash2.hash, tier.algorithm)
               g      == [f EXCEPT !.hash1 = Undefined, !.hash2 = Undefined]
           IN  IF IsError(result)
               THEN [g EXCEPT !.outcome = thrown(result), !.pc = Done]
               ELSE IF thresholdMet(result, tier)
               THEN [g EXCEPT !.outcome = levelOutcome(k, result), !.pc = Done]
               ELSE [g EXCEPT !.pc = <<nextLevel(k), "enter">>]

\* History: every invocation that is suspended while invocation id runs has
\* been overlapped.
noteOverlap(cs, id) ==
  [j \in DOMAIN cs |->
     IF j # id /\ cs[j].pc \notin {Idle, Done}
     THEN [cs[j] EXCEPT !.overlapped = TRUE]
     ELSE cs[j]]

otherVars ==
  <<ctorArg, options, pc, image1, image2, opts, hash1, hash2, outcome, trace,
    cmpArgs, cmpResult, genVars, callOptions, overridden, kern>>

\* hasher.progressiveCompare(i1, i2, o), while other invocations may be
\* suspended: const opts = { ...this.options, ...options }
Invoke(id, i1, i2, o) ==
  /\ calls[id].pc = Idle
  /\ calls' = noteOverlap(
                storeLocals(calls, id,
                            Frame(<<1, "enter">>, i1, i2, o, Spread(options, o))),
                id)
  /\ UNCHANGED otherVars

\* The continuation of invocation id runs to its next suspension point.
Resume(id) ==
  /\ calls[id].pc \notin {Idle, Done}
  /\ calls' = noteOverlap(storeLocals(calls, id, resume(calls[id])), id)
  /\ UNCHANGED otherVars

\* The caller of invocation id has the settled promise.
Return(id) ==
  /\ calls[id].pc = Done
  /\ calls' = [calls EXCEPT ![id] = IdleFrame]
  /\ UNCHANGED otherVars

NextReentrant ==
  \/ \E id \in CallIds, p \in ReentrantPairs, o \in ReentrantCallOptions :
       Invoke(id, p[1], p[2], o)
  \/ \E id \in CallIds : Resume(id)
  \/ \E id \in CallIds : Return(id)

InitReentrant == \E c \in ReentrantCtorOptions : InitHasher(c)

SpecReentrant == InitReentrant /\ [][NextReentrant]_vars

(***************************************************************************)
(* Vocabulary of the properties                                            *)
(***************************************************************************)

Returned == pc = Done /\ outcome.kind = "return"

Threw == pc = Done /\ outcome.kind = "throw"

\* Level k is set, to an object, in the effective configuration of the call.
Configured(k) == LevelKey(k) \in DOMAIN opts /\ opts[LevelKey(k)] # Undefined

Level4On ==
  "level4" \in DOMAIN opts /\ opts["level4"] # Undefined /\ opts["level4"].enabled

\* The trace entry e is a comparison that gave a result.
IsComparison(e) == e.op = "compareHashes" /\ "similarity" \in DOMAIN e.result

\* How the similarity of a comparison entry stands to its level's threshold.
SimilarityScaled(e) == e.result.similarity.num * 100

ThresholdScaled(e) == opts[LevelKey(e.level)].threshold * e.result.similarity.den

\* Level k was compared in this call and fell below its threshold.
FellBelow(k) ==
  \E i \in 1..Len(trace) :
    /\ IsComparison(trace[i])
    /\ trace[i].level = k
    /\ SimilarityScaled(trace[i]) < ThresholdScaled(trace[i])

\* No level 1-3 of the call's configuration cleared its threshold: each one that
\* is configured was compared and fell below.
NoLevelCleared == \A k \in Levels : Configured(k) => FellBelow(k)

IsPlaceholder(result) ==
  /\ result.identical = FALSE
  /\ result.similarity.num = 0
  /\ result.differences.severity = "high"

(***************************************************************************)
(* Properties of progressiveCompare                                        *)
(***************************************************************************)

\* C1: escalation short-circuit.  When the similarity computed at a level is at
\* least that level's threshold, the call has returned that level with that
\* comparison's result and shouldContinue = false, and the comparison is the
\* last thing the call did: no hash of a later level was generated.
C1_ShortCircuit ==
  \A i \in 1..Len(trace) :
    (IsComparison(trace[i]) /\ SimilarityScaled(trace[i]) >= ThresholdScaled(trace[i]))
    => /\ pc = Done
       /\ outcome = [kind |-> "return", level |-> trace[i].level,
                     result |-> trace[i].result, shouldContinue |-> FALSE]
       /\ i = Len(trace)
       /\ \A j \in 1..Len(trace) : trace[j].level <= trace[i].level

\* A call returned at level 1 on images that differ, with levels 2 and 3 configured.
C1_Witness ==
  /\ Returned
  /\ outcome.level = 1
  /\ ~outcome.result.identical
  /\ Configured(2)
  /\ Configured(3)

\* C2: level 4 hand-off.  When no level 1-3 is configured or every configured
\* one fell below its threshold, and level4.enabled is true, the call returns
\* level 4 with shouldContinue = true and the placeholder result (identical
\* false, similarity 0, severity high); it made no call other than the hash
\* generations and comparisons of levels 1-3.
C2_Level4HandOff ==
  (pc = Done /\ Level4On /\ NoLevelCleared)
  => /\ outcome.kind = "return"
     /\ outcome.level = 4
     /\ outcome.shouldContinue = TRUE
     /\ IsPlaceholder(outcome.result)
     /\ \A i \in 1..Len(trace) :
          trace[i].op \in {"generateHash", "compareHashes"} /\ trace[i].level \in Levels

\* A call handed off to level 4 after three levels ran and fell below.
C2_Witness == Returned /\ outcome.level = 4 /\ Len(trace) = 9

\* The level the fall-through is said to report: 3, or the highest configured
\* level when level 3 is not configured (any, when none is).
SaidFallThroughLevel(level) ==
  IF Configured(3) THEN level = 3
  ELSE IF Configured(2) THEN level = 2
  ELSE IF Configured(1) THEN level = 1
  ELSE TRUE

\* C3: level 4 disabled fall-through.  When level 4 is disabled or absent and no
\* level 1-3 cleared its threshold, the call returns shouldContinue = false with
\* the placeholder result and a level equal to 3, or to the highest configured
\* level when level 3 is not configured.
C3_FallThrough ==
  (pc = Done /\ ~Level4On /\ NoLevelCleared)
  => /\ outcome.kind = "return"
     /\ outcome.shouldContinue = FALSE
     /\ IsPlaceholder(outcome.result)
     /\ SaidFallThroughLevel(outcome.level)

\* The first level of 1-3 that the call's configuration sets; 0 when none is.
FirstConfigured ==
  IF Configured(1) THEN 1
  ELSE IF Configured(2) THEN 2
  ELSE IF Configured(3) THEN 3
  ELSE 0

\* A call on one image given twice, whose configuration sets some level 1-3.
SameImageCall == pc = Done /\ image1 = image2 /\ FirstConfigured # 0

StrictSameImageCall == pc = Done /\ opts = StrictOptions /\ image1 = image2

WentOn(i) ==
  \/ pc # Done
  \/ i < Len(trace)
  \/ outcome.kind # "return"
  \/ outcome.result # trace[i].result

\* C6: the threshold test is inclusive.  A similarity exactly equal to the
\* level's threshold stops the escalation at that level (level = that level,
\* shouldContinue = false); the call goes on past a level only when the
\* similarity was strictly below the threshold.
C6_InclusiveThreshold ==
  \A i \in 1..Len(trace) :
    IsComparison(trace[i])
    => /\ (SimilarityScaled(trace[i]) = ThresholdScaled(trace[i]))
          => /\ Returned
             /\ outcome.level = trace[i].level
             /\ outcome.result = trace[i].result
             /\ outcome.shouldContinue = FALSE
             /\ i = Len(trace)
       /\ WentOn(i) => SimilarityScaled(trace[i]) < ThresholdScaled(trace[i])

\* A call returned on a similarity below 1 that equals the threshold exactly.
C6_Witness ==
  /\ Returned
  /\ outcome.level \in Levels
  /\ IsComparison(trace[Len(trace)])
  /\ SimilarityScaled(trace[Len(trace)]) = ThresholdScaled(trace[Len(trace)])
  /\ ~outcome.result.identical

\* Position of the control state along Tier1 -> Tier2 -> Tier3 -> Tier4 -> Done.
StepRank(p) ==
  IF p = Idle THEN 0
  ELSE IF p = Done THEN 13
  ELSE 3 * (p[1] - 1) + (CASE p[2] = "enter" -> 1 [] p[2] = "hash2" -> 2 [] OTHER -> 3)

\* Every step of a call in progress moves forward; the only step from Done
\* hands the outcome to the caller.
ForwardOnly ==
  pc # Idle => \/ pc = Done /\ pc' = Idle
               \/ pc # Done /\ StepRank(pc') > StepRank(pc) /\ pc'[1] >= pc[1]

\* The call stands in level k >= 2 only after every configured earlier level
\* was compared and fell below its threshold.
EnteredInOrder ==
  (pc # Idle /\ pc # Done)
  => \A j \in Levels : (j < pc[1] /\ Configured(j)) => FellBelow(j)

\* No call of a level is made twice in one invocation.
VisitedOnce ==
  \A i \in 1..Len(trace) : \A j \in 1..Len(trace) :
    (i < j /\ trace[i].op = trace[j].op /\ trace[i].level = trace[j].level)
    => /\ trace[i].op = "generateHash"
       /\ trace[i].image # trace[j].image

\* C7: progressiveCompare is a forward-only state machine Tier1 -> Tier2 ->
\* Tier3 -> Tier4 -> Done: levels are visited in the order 1, 2, 3, 4, level k+1
\* is entered only after every configured earlier level fell below its
\* threshold, no level is visited twice, and every invocation reaches Done (an
\* outcome or an error), each awaited call returning.
C7_ForwardOnlyMachine ==
  /\ [][ForwardOnly]_vars
  /\ [](EnteredInOrder /\ VisitedOnce)
  /\ (pc # Idle) ~> (pc = Done)

\* The call stands at the code after level 3, all three levels having run.
C7_Witness == pc = <<4, "enter">> /\ Len(trace) = 9

\* Level k is configured with a name generateHash does not know.
UnknownAt(k) == Configured(k) /\ opts[LevelKey(k)].algorithm \notin KnownAlgorithms

\* The escalation of this call reaches level k: every configured earlier level
\* was compared and fell below its threshold.
Reaches(k) == \A j \in Levels : (j < k /\ Configured(j)) => FellBelow(j)

UnknownAlgorithmFailure(k) ==
  /\ outcome.kind = "throw"
  /\ "cause" \in DOMAIN outcome.error
  /\ outcome.error.cause = "Unknown hashing algorithm"
  /\ outcome.error.algorithm = opts[LevelKey(k)].algorithm

\* C8: an unknown algorithm name at a level 1-3 that the escalation reaches
\* makes progressiveCompare fail with the unknown-algorithm error and abort:
\* the first hash generation of that level is the last call made, the level is
\* neither skipped nor retried, and no outcome is returned.  A level that is
\* not reached, because an earlier one cleared its threshold, does not fail.
C8_UnknownAlgorithmAborts ==
  \A k \in Levels :
    (pc = Done /\ UnknownAt(k))
    => IF Reaches(k)
       THEN /\ UnknownAlgorithmFailure(k)
            /\ trace[Len(trace)] = HashEvent(k, 1, outcome.error)
            /\ \A i \in 1..(Len(trace) - 1) : trace[i].level < k
       ELSE \A i \in 1..Len(trace) : trace[i].level < k

\* A call failed on the unknown name of level 3 after levels 1 and 2 ran.
C8_Witness ==
  /\ pc = Done
  /\ UnknownAt(3)
  /\ UnknownAlgorithmFailure(3)
  /\ Len(trace) = 7

\* C8 as stated: an unknown name at any level 1-3 of the effective
\* configuration makes the call fail with the unknown-algorithm error.
C8_AsStated ==
  \A k \in Levels : (pc = Done /\ UnknownAt(k)) => UnknownAlgorithmFailure(k)

\* A failed call of the trace is the last one, and the call failed with it.
FailureIsFinal ==
  \A i \in 1..Len(trace) :
    IsError(trace[i].result)
    => /\ i = Len(trace)
       /\ pc = Done
       /\ outcome = [kind |-> "throw", error |-> trace[i].result]

\* C9: no partial result on failure.  When a hash generation or a comparison
\* fails at a level the call executes, the call fails there with that error:
\* it returns no outcome, runs nothing after the failed call, repeats no call,
\* and the options of the hasher instance are what they were.
C9_NoPartialResult ==
  /\ [](FailureIsFinal /\ VisitedOnce)
  /\ [][options' = options]_vars

\* A call failed in a comparison, after an earlier level ran and fell below.
C9_Witness ==
  /\ Threw
  /\ Len(trace) >= 4
  /\ trace[Len(trace)].op = "compareHashes"
  /\ FellBelow(1)

(***************************************************************************)
(* Properties of compareHashes                                             *)
(***************************************************************************)

LengthMismatch == "Hash lengths must be equal for Hamming distance calculation"

\* C10: compareHashes on two bit-strings of unequal length fails with the
\* length-mismatch error, whatever the strings are; it gives no result
\* computed from a common prefix.
C10_UnequalLengthsFail ==
  (cmpArgs # Undefined /\ Len(cmpArgs.hash1) # Len(cmpArgs.hash2))
  => /\ IsError(cmpResult)
     /\ cmpResult.error = LengthMismatch
     /\ "similarity" \notin DOMAIN cmpResult

\* The call was made on a string and a proper prefix of it.
C10_Witness ==
  /\ cmpArgs # Undefined
  /\ Len(cmpArgs.hash1) = Len(cmpArgs.hash2) + 1
  /\ Len(cmpArgs.hash2) >= 1
  /\ SubSeq(cmpArgs.hash1, 1, Len(cmpArgs.hash2)) = cmpArgs.hash2
  /\ IsError(cmpResult)

\* A direct call on two different strings of one length gave a result.
UnequalSameLength ==
  /\ cmpArgs # Undefined
  /\ Len(cmpArgs.hash1) = Len(cmpArgs.hash2)
  /\ cmpArgs.hash1 # cmpArgs.hash2

\* The positions (1-based) where the two arguments differ.
Mismatches == {i \in 1..Len(cmpArgs.hash1) : cmpArgs.hash1[i] # cmpArgs.hash2[i]}

\* The result's similarity is 1 - d/len.
SimilarityIs(d, len) ==
  cmpResult.similarity.num * len = (len - d) * cmpResult.similarity.den

\* C11: for two unequal bit-strings of equal length L, compareHashes returns
\* differences.count equal to the Hamming distance d, similarity = 1 - d/L and
\* identical = false; '1010101010101010' against '1010101010101011' gives d = 1
\* and similarity 15/16 = 0.9375, against sixteen zeros d = 8 and similarity 0.5.
C11_HammingSimilarity ==
  UnequalSameLength
  => /\ ~IsError(cmpResult)
     /\ cmpResult.identical = FALSE
     /\ cmpResult.differences.count = Cardinality(Mismatches)
     /\ SimilarityIs(Cardinality(Mismatches), Len(cmpArgs.hash1))
     /\ (cmpArgs.hash1 = TestHash1010 /\ cmpArgs.hash2 = TestHash1011)
        => cmpResult.differences.count = 1 /\ cmpResult.similarity = Ratio(15, 16)
     /\ (cmpArgs.hash1 = TestHash1010 /\ cmpArgs.hash2 = TestHashZeros)
        => cmpResult.differences.count = 8 /\ SimilarityIs(1, 2)

\* The test's strings were compared: one bit of sixteen differs.
C11_Witness ==
  /\ UnequalSameLength
  /\ cmpArgs.hash1 = TestHash1010
  /\ cmpArgs.hash2 = TestHash1011
  /\ cmpResult.differences.count = 1

\* Five times the number of agreeing positions, against 4 and 3 times the
\* length: similarity > 0.8 is FiveAgree > 4 * L, similarity > 0.6 is > 3 * L.
FiveAgree == 5 * (Len(cmpArgs.hash1) - Cardinality(Mismatches))

\* C12: severity uses strict comparisons against fixed constants: 'low' iff
\* similarity > 0.8, 'medium' iff 0.6 < similarity <= 0.8, 'high' iff
\* similarity <= 0.6; a similarity of exactly 0.8 (1 of 5 bits differing) is
\* 'medium' and one of exactly 0.6 (2 of 5) is 'high'.
C12_SeverityBoundaries ==
  UnequalSameLength
  => LET L        == Len(cmpArgs.hash1)
         severity == cmpResult.differences.severity
     IN  /\ severity \in {"low", "medium", "high"}
         /\ severity = "low" <=> FiveAgree > 4 * L
         /\ severity = "medium" <=> (FiveAgree > 3 * L /\ FiveAgree <= 4 * L)
         /\ severity = "high" <=> FiveAgree <= 3 * L
         /\ (L = 5 /\ Cardinality(Mismatches) = 1) => severity = "medium"
         /\ (L = 5 /\ Cardinality(Mismatches) = 2) => severity = "high"

\* One bit of five differs: the similarity is exactly 0.8.
C12_Witness ==
  /\ UnequalSameLength
  /\ Len(cmpArgs.hash1) = 5
  /\ cmpResult.differences.count = 1
  /\ cmpResult.differences.severity = "medium"

\* C13: for unequal inputs of equal length, differences.positions is exactly
\* the set of (0-based) indices where the strings differ, in strictly
\* ascending order without duplicates, and its length is differences.count.
C13_Positions ==
  UnequalSameLength
  => LET positions == cmpResult.differences.positions
     IN  /\ \A i \in 1..Len(positions) : \A j \in 1..Len(positions) :
               i < j => positions[i] < positions[j]
         /\ {positions[i] : i \in 1..Len(positions)} = {m - 1 : m \in Mismatches}
         /\ Len(positions) = cmpResult.differences.count

\* The strings differ at their first index and at their last.
C13_Witness ==
  /\ UnequalSameLength
  /\ Len(cmpArgs.hash1) = 5
  /\ cmpResult.differences.positions = <<0, 4>>

\* C14: symmetry.  For strings of equal length, compareHashes(h1, h2) and
\* compareHashes(h2, h1) return the same similarity, identical flag, count,
\* positions and severity.
C14_Symmetry ==
  (cmpArgs # Undefined /\ Len(cmpArgs.hash1) = Len(cmpArgs.hash2))
  => cmpResult = compareHashes(cmpArgs.hash2, cmpArgs.hash1, cmpArgs.algorithm)

\* The first string has a 1 where the second has a 0, and nowhere the reverse.
C14_Witness ==
  /\ UnequalSameLength
  /\ \A i \in Mismatches : cmpArgs.hash1[i] = "1"
  /\ cmpResult.differences.count = 2

\* C15: compareHashes on two equal strings returns identical = true and
\* similarity = 1.0 and reports no differing position, for every string and
\* every algorithm label; identical = true is returned only for equal strings.
C15_Identity ==
  cmpArgs # Undefined
  => /\ (cmpArgs.hash1 = cmpArgs.hash2)
        => /\ ~IsError(cmpResult)
           /\ cmpResult.identical = TRUE
           /\ cmpResult.similarity.num = cmpResult.similarity.den
           /\ cmpResult.similarity.den > 0
           /\ "differences" \notin DOMAIN cmpResult
           /\ cmpResult.algorithm = cmpArgs.algorithm
     /\ (~IsError(cmpResult) /\ cmpResult.identical) => cmpArgs.hash1 = cmpArgs.hash2

\* A string was compared with itself under a label the hasher does not know.
C15_Witness ==
  /\ cmpArgs # Undefined
  /\ cmpArgs.hash1 = cmpArgs.hash2
  /\ Len(cmpArgs.hash1) = 5
  /\ cmpArgs.algorithm = "bogus"
  /\ cmpResult.identical

(***************************************************************************)
(* Properties of generateHash                                              *)
(***************************************************************************)

\* A direct generateHash call has settled, with the arguments of the first
\* call made.
SameCallAgain == genArgs # Undefined /\ genArgs = genSeen.args

C17_UnknownAlgorithm ==
  (genArgs # Undefined /\ genArgs.algorithm \notin KnownAlgorithms)
  => /\ IsError(genResult)
     /\ genResult.error = "Hash generation failed"
     /\ genResult.cause = "Unknown hashing algorithm"
     /\ genResult.algorithm = genArgs.algorithm
     /\ "hash" \notin DOMAIN genResult

\* The unknown name was given with an empty buffer and the size 0.
C17_Witness ==
  /\ genArgs # Undefined
  /\ genArgs.algorithm = "bogus"
  /\ ~genArgs.image.decodable
  /\ genArgs.size = 0
  /\ IsError(genResult)

\* The pixels the kernel of the algorithm asks the pixel source for.
gridPixels(algorithm, size) ==
  CASE algorithm = "dhash"     -> (size + 1) * (size + 1)
    [] algorithm = "blockhash" -> (size * 4) * (size * 4)
    [] OTHER                   -> size * size

\* The bits the loops of the kernel emit over a grid of one sample per pixel.
gridBits(algorithm, size) ==
  LET inner == IF size > 2 THEN size - 2 ELSE 0
      low   == IF size < 8 THEN size ELSE 8
  IN  CASE algorithm \in {"average", "dhash", "blockhash"} -> size * size
        [] algorithm = "phash"                         -> low * low
        [] algorithm = "perceptual" -> IF size * 2 < size * size THEN size * 2 ELSE size * size
        [] algorithm = "wavelet"                       -> (size \div 2) * (size \div 2)
        [] algorithm \in {"structural", "gradient"}    -> inner * inner
        [] algorithm = "colorhistogram"                -> 3

\* A direct call with a known name and a size the pixel source accepts.
KernelCall ==
  /\ genArgs # Undefined
  /\ genArgs.algorithm \in KnownAlgorithms
  /\ genArgs.size >= 1

\* The buffer is empty, or the picture has fewer pixels than the grid.
Undersized ==
  \/ ~genArgs.image.decodable
  \/ genArgs.image.w * genArgs.image.h < gridPixels(genArgs.algorithm, genArgs.size)

FreshOptions == Spread(defaultOptions, ctorArg)

\* A finished call that carried no options returned or threw what the same
\* call does on a fresh instance.
AsOnFreshInstance ==
  (pc = Done /\ callOptions = NoOptions)
  => outcome = progressiveCompareFrom(FreshOptions, image1, image2, 1)

\* C19: the configuration of an instance is read-only after construction: no
\* sequence of generateHash, compareHashes and progressiveCompare calls, with
\* or without per-call options, succeeding or failing, changes it; per-call
\* options affect only their own call, and a later call without options
\* behaves as on a fresh instance built with the same constructor options.
C19_ConfigurationReadOnly ==
  /\ [][options' = options]_vars
  /\ [](options = FreshOptions /\ AsOnFreshInstance)

\* A call without options returned, after a call that carried options and a
\* direct generateHash call on the same instance.
C19_Witness ==
  /\ Returned
  /\ callOptions = NoOptions
  /\ overridden
  /\ genSeen # Undefined
  /\ outcome.level = 1

TierKeys == {"level1", "level2", "level3", "level4"}

\* The entry of a key after layering: the call's if the call gives the key,
\* else the constructor's if the constructor gave it, else the default.
Layered(key) ==
  IF key \in DOMAIN callOptions THEN callOptions[key]
  ELSE IF key \in DOMAIN ctorArg THEN ctorArg[key]
  ELSE defaultOptions[key]

\* C20: the effective configuration of a progressiveCompare call is layered
\* per level: the built-in default (level1 dhash/8/0.95, level2
\* perceptual/16/0.90, level3 structural/32/0.85, level4 enabled/0.80),
\* overridden by the constructor's entry for the level if given, overridden by
\* the call's entry for the level if given; a level not mentioned at a layer
\* keeps the value of the layer below.
C20_Layering ==
  /\ defaultOptions = [level1 |-> Tier("dhash", 8, 95),
                       level2 |-> Tier("perceptual", 16, 90),
                       level3 |-> Tier("structural", 32, 85),
                       level4 |-> Semantic(TRUE, 80)]
  /\ callOptions # Undefined
     => /\ DOMAIN opts = TierKeys
        /\ \A key \in TierKeys : opts[key] = Layered(key)

\* A call whose level 1 comes from the constructor, levels 2 and 3 from the
\* defaults and level 4 from the call.
C20_Witness ==
  /\ callOptions # Undefined
  /\ DOMAIN ctorArg = {"level1"}
  /\ DOMAIN callOptions = {"level4"}
  /\ opts["level1"] = ctorArg["level1"]
  /\ opts["level2"] = defaultOptions["level2"]
  /\ opts["level4"] = callOptions["level4"]
  /\ opts["level4"] # defaultOptions["level4"]

(***************************************************************************)
(* Properties of overlapping invocations                                   *)
(***************************************************************************)

\* What the invocation of frame f returns or throws when it runs alone on the
\* instance, with the same images and options.
AloneOutcome(f) ==
  progressiveCompareFrom(Spread(options, f.options), f.image1, f.image2, 1)

\* The level whose block the invocation of frame f stands in.
FrameTier(f) == Get(f.opts, LevelKey(f.pc[1]))

\* C21: reentrancy.  When invocations of progressiveCompare on one instance
\* (the module singleton included) are interleaved at their suspension points
\* in any way, each one works on its own options and its own hashes (its opts
\* are the instance's options overlaid with its own argument; the hashes it
\* holds are those of its own images at its own level) and settles with
\* exactly the outcome it has when it runs alone.
C21_Reentrancy ==
  \A id \in CallIds :
    LET f == calls[id]
    IN  f.pc # Idle =>
          /\ f.opts = Spread(options, f.options)
          /\ f.hash1 # Undefined => f.hash1 = generateHashFor(f.image1, FrameTier(f))
          /\ f.hash2 # Undefined => f.hash2 = generateHashFor(f.image2, FrameTier(f))
          /\ f.pc = Done => f.outcome = AloneOutcome(f)

\* Two invocations that ran while the other was suspended have settled, on
\* different image pairs and options, with different outcomes.
C21_Witness ==
  /\ calls[1].pc = Done /\ calls[1].overlapped
  /\ calls[2].pc = Done /\ calls[2].overlapped
  /\ calls[1].image2 # calls[2].image2
  /\ calls[1].options # calls[2].options
  /\ calls[1].outcome.kind = "return"
  /\ calls[2].outcome.kind = "return"
  /\ calls[1].outcome.level # calls[2].outcome.level

(***************************************************************************)
(* Properties of the hashing kernels                                       *)
(***************************************************************************)

\* The trace entry e is a hash generation that gave a hash.
IsHash(e) == e.op = "generateHash" /\ "hash" \in DOMAIN e.result

\* The hash of entry e was made at level k by the algorithm and size given.
MadeWith(e, k, algorithm, size) ==
  /\ IsHash(e)
  /\ e.level = k
  /\ opts[LevelKey(k)].algorithm = algorithm
  /\ opts[LevelKey(k)].size = size

\* C22: documented bit lengths.  With the documented sizes and the default
\* algorithms, the hashes compared at level 1 (dhash, size 8) have 64 bits,
\* those of level 2 (perceptual, size 16) have 256 bits and those of level 3
\* (structural, size 32) have 1024 bits.
C22_DocumentedBitLengths ==
  \A i \in 1..Len(trace) :
    /\ MadeWith(trace[i], 1, "dhash", 8) => Len(trace[i].result.hash) = 64
    /\ MadeWith(trace[i], 2, "perceptual", 16) => Len(trace[i].result.hash) = 256
    /\ MadeWith(trace[i], 3, "structural", 32) => Len(trace[i].result.hash) = 1024

\* The length the hash of an algorithm at size n is said to have.
SaidLength(algorithm, n, len) ==
  CASE algorithm \in {"average", "dhash", "blockhash"} -> len = n * n
    [] algorithm = "phash"      -> len = (IF n < 8 THEN n ELSE 8) * (IF n < 8 THEN n ELSE 8)
    [] algorithm = "perceptual" -> len = (IF 2 * n < n * n THEN 2 * n ELSE n * n)
    [] algorithm = "wavelet"    -> 4 * len = n * n
    [] algorithm \in {"structural", "gradient"} -> len = (n - 2) * (n - 2)
    [] algorithm = "colorhistogram" -> len = 3

\* C23: the length of the bit string generateHash gives depends on the
\* algorithm and the size n alone, never on the image: n^2 for average, dhash
\* and blockhash, min(8, n)^2 for phash, min(2n, n^2) for perceptual, (n/2)^2
\* for wavelet, (n-2)^2 for structural and gradient, 3 for colorhistogram (so
\* that the two hashes of a level always have equal lengths).
C23_LengthByAlgorithmAndSize ==
  (KernelCall /\ ~IsError(genResult))
  => SaidLength(genArgs.algorithm, genArgs.size, Len(genResult.hash))

\* The coefficient sequence of an algorithm on an image at size n: the grey
\* samples (average), the first min(2n, n^2) DCT values of the blurred samples
\* (perceptual), the sums of the 4 x 4 blocks, 16 times their means
\* (blockhash), the min(8, n)^2 low-frequency DCT values (phash), the
\* (n/2)^2 top-left values of the Haar transform (wavelet), the squares of the
\* gradient magnitudes (structural, gradient).
CoefficientsOf(image, algorithm, n) ==
  LET grey    == sharpRaw(image, n, n, TRUE).data
      wide    == sharpRaw(image, 4 * n, 4 * n, TRUE).data
      low     == IF n < 8 THEN n ELSE 8
      dct     == simpleDCT(grey, n, n * n)
      wavelet == haarWavelet(grey, n).v
      half    == (n + 1) \div 2
  IN  CASE algorithm = "average" -> grey
        [] algorithm = "perceptual" ->
             simpleDCT(sharpBlur(grey, n), n, IF 2 * n < n * n THEN 2 * n ELSE n * n)
        [] algorithm = "blockhash" ->
             [b \in 1..(n * n) |->
                sumSeq([c \in 1..16 |->
                          wide[(((b - 1) \div n) * 4 + ((c - 1) \div 4)) * (4 * n)
                               + (((b - 1) % n) * 4) + ((c - 1) % 4) + 1]])]
        [] algorithm = "phash" ->
             [k \in 1..(low * low) |-> dct[((k - 1) \div low) * n + ((k - 1) % low) + 1]]
        [] algorithm = "wavelet" ->
             [k \in 1..(half * half) |-> wavelet[approxAt(k, n)]]
        [] algorithm \in {"structural", "gradient"} -> calculateGradients(grey, n)

\* c is strictly greater than the mean of cs.
AboveMean(c, cs) == c * Len(cs) > sumSeq(cs)

\* c, an element of cs, is strictly greater than the median of cs: greater
\* than the middle element of the ascending order, or than the mean of the
\* two central ones.
AboveMedian(c, cs) ==
  LET sorted == SortSeq(cs, LAMBDA a, b : a < b)
      mid    == Len(cs) \div 2
  IN  IF Len(cs) % 2 = 1 THEN c > sorted[mid + 1]
      ELSE 2 * c > sorted[mid] + sorted[mid + 1]

\* c, the square of a magnitude of those whose squares are cs, has its
\* magnitude strictly greater than the median of the magnitudes: being one of
\* them, it is so when it is at or above the upper central one and above the
\* lower.
RootAboveMedian(c, cs) ==
  LET sorted == SortSeq(cs, LAMBDA a, b : a < b)
      mid    == Len(cs) \div 2
  IN  IF Len(cs) % 2 = 1 THEN c > sorted[mid + 1]
      ELSE c >= sorted[mid + 1] /\ c > sorted[mid]

\* 16 times a block mean is above 16 * 128.
AboveMidGrey(c, cs) == c > 16 * 128

MeanEncoded == {"average", "perceptual"}

MedianEncoded == {"phash", "wavelet"}

GradientEncoded == {"structural", "gradient"}

Encoded == MeanEncoded \cup MedianEncoded \cup GradientEncoded \cup {"blockhash"}

\* The bit string of the policy: mean, median, or the rule given for blockhash.
PolicyBits(image, algorithm, n, AboveBlock(_, _)) ==
  LET cs == CoefficientsOf(image, algorithm, n)
  IN  [k \in 1..Len(cs) |->
         IF    (algorithm \in MeanEncoded /\ AboveMean(cs[k], cs))
            \/ (algorithm \in MedianEncoded /\ AboveMedian(cs[k], cs))
            \/ (algorithm \in GradientEncoded /\ RootAboveMedian(cs[k], cs))
            \/ (algorithm = "blockhash" /\ AboveBlock(cs[k], cs))
         THEN "1" ELSE "0"]

\* The direct calls whose kernel encodes a coefficient sequence, on a grid on
\* which the Haar transform stays inside.
EncodedCalls ==
  {c \in GenImages \X Encoded \X GenSizes :
     /\ c[1].decodable
     /\ c[3] >= 1
     /\ c[2] = "wavelet" => haarWavelet(sharpRaw(c[1], c[3], c[3], TRUE).data, c[3]).nan = {}}

CoefficientsTable == [c \in EncodedCalls |-> CoefficientsOf(c[1], c[2], c[3])]

\* The policy with the fixed threshold 128 for blockhash, and with the mean of
\* the block means.
PolicyTable == [c \in EncodedCalls |-> PolicyBits(c[1], c[2], c[3], AboveMidGrey)]

StatedPolicyTable == [c \in EncodedCalls |-> PolicyBits(c[1], c[2], c[3], AboveMean)]

TheCall == <<genArgs.image, genArgs.algorithm, genArgs.size>>

EncodedCall == genArgs # Undefined /\ TheCall \in DOMAIN PolicyTable

\* C24: encoder policy.  Each coefficient becomes bit 1 exactly when it is
\* strictly greater than its threshold, and 0 when it equals it: the mean of
\* the coefficient sequence for average and perceptual, the median of the
\* sequence for phash, wavelet, structural and gradient, and, for blockhash,
\* the fixed value 128 (a block mean above 128), which is no statistic of the
\* sequence.
C24_EncoderPolicy ==
  EncodedCall => (~IsError(genResult) /\ genResult.hash = PolicyTable[TheCall])

\* A median-encoded hash with a coefficient that equals the median: its bit is 0.
C24_Witness ==
  /\ EncodedCall
  /\ genArgs.algorithm \in MedianEncoded
  /\ LET cs == CoefficientsTable[TheCall]
     IN  \E k \in 1..Len(cs) :
           /\ ~AboveMedian(cs[k], cs)
           /\ ~AboveMedian(0 - cs[k], [j \in 1..Len(cs) |-> 0 - cs[j]])
           /\ genResult.hash[k] = "0"

\* C24 as stated: the threshold of blockhash too is the mean of its
\* coefficient sequence, the block means.
C24_AsStated ==
  EncodedCall => (~IsError(genResult) /\ genResult.hash = StatedPolicyTable[TheCall])

(***************************************************************************)
(* Properties of the utility functions                                     *)
(***************************************************************************)

IsPowerOfTwo(n) == \E e \in 0..10 : pow2(e) = n

\* The utility named was called and its result is being looked at.
Called(op) == kern # Undefined /\ kern.op = op

\* The places of the transform that waveletHash thresholds into bits.
ApproxPlaces(size) ==
  {approxAt(k, size) : k \in 1..(((size + 1) \div 2) * ((size + 1) \div 2))}

\* C25: the wavelet hash is computed from approximation coefficients alone.
\* For every power-of-two size n, each of the (n/2) x (n/2) values of the Haar
\* transform that is thresholded into a bit is a pairwise average, and none is
\* a pairwise difference (a detail coefficient).
C25_OnlyApproximation ==
  (Called("haarWavelet") /\ IsPowerOfTwo(kern.size))
  => \A k \in ApproxPlaces(kern.size) : kern.kinds[k] # "difference"

\* The number of values of the array that are below x, and at most x.
Below(values, x) == Cardinality({i \in DOMAIN values : values[i] < x})

AtMost(values, x) == Cardinality({i \in DOMAIN values : values[i] <= x})

\* The element at place r (from 1) of the ascending order of the array.
OfRank(values, r) ==
  CHOOSE x \in {values[i] : i \in DOMAIN values} :
    Below(values, x) < r /\ r <= AtMost(values, x)

\* C26: median.  For a non-empty array, median gives the middle element of
\* the ascending order when the length is odd and the mean of the two central
\* elements when it is even (3 for [1,2,3,4,5], 2.5 for [1,2,3,4], 1 for [1]),
\* and the array it was given is afterwards as it was.
C26_Median ==
  (Called("median") /\ Len(kern.values) > 0)
  => LET n == Len(kern.values)
     IN  /\ n % 2 = 1 => kern.result = Ratio(OfRank(kern.values, (n + 1) \div 2), 1)
         /\ n % 2 = 0 => kern.result = Ratio(OfRank(kern.values, n \div 2)
                                               + OfRank(kern.values, (n \div 2) + 1), 2)
         /\ kern.values = <<1, 2, 3, 4, 5>> => RatioEq(kern.result, Ratio(3, 1))
         /\ kern.values = <<1, 2, 3, 4>> => RatioEq(kern.result, Ratio(25, 10))
         /\ kern.values = <<1>> => RatioEq(kern.result, Ratio(1, 1))
         /\ kern.after = kern.values

\* The median of an array that is not in order and has an even length, whose
\* central elements differ.
C26_Witness ==
  /\ Called("median")
  /\ kern.values = <<3, 1, 2, 1>>
  /\ kern.result = Ratio(3, 2)
  /\ kern.after = <<3, 1, 2, 1>>

\* C30: index safety.  For every size n >= 1, power of two or not, the loops
\* of differenceHash, blockHash, calculateGradients, perceptualHash's
\* low-frequency selection and haarWavelet read and write only places inside
\* the grid they were given, and no value that becomes a bit comes from a
\* read outside it.
C30_IndexSafety ==
  (kern # Undefined /\ "reads" \in DOMAIN kern)
  => /\ \A i \in kern.reads : 0 <= i /\ i < kern.grid
     /\ kern.op = "haarWavelet" => kern.result.nan \cap ApproxPlaces(kern.size) = {}

(***************************************************************************)
(* Properties of the outcomes of progressiveCompare                        *)
(***************************************************************************)

\* The last thing the call did was the comparison of level k, whose result
\* it returned.
ReturnedComparison(k) ==
  /\ Len(trace) > 0
  /\ trace[Len(trace)] = CompareEvent(k, outcome.result)

\* The returned outcome is the final return of the code, after the blocks.
IsFallThrough == outcome.result.algorithm = "progressive"

\* C27: shape of the outcomes.  In every outcome progressiveCompare returns,
\* level is one of 1..4 and shouldContinue is true exactly when level is 4;
\* level 4 is returned only when level4.enabled is true in the call's
\* configuration; and a level of 1..3 returned for clearing its threshold is a
\* level the configuration sets, whose comparison the call made last.
C27_OutcomeShape ==
  Returned
  => /\ outcome.level \in 1..4
     /\ outcome.shouldContinue <=> outcome.level = 4
     /\ outcome.level = 4 => Level4On
     /\ (outcome.level \in Levels /\ ~IsFallThrough)
          => (Configured(outcome.level) /\ ReturnedComparison(outcome.level))

\* A call handed off to level 4 with level 3 not configured and level 2 run.
C27_Witness ==
  /\ Returned
  /\ outcome.level = 4
  /\ outcome.shouldContinue
  /\ ~Configured(3)
  /\ FellBelow(2)

\* The threshold of the level an outcome reports is set and above the
\* similarity of its result.
BelowReportedThreshold ==
  /\ Configured(outcome.level)
  /\ outcome.result.similarity.num * 100
       < opts[LevelKey(outcome.level)].threshold * outcome.result.similarity.den

\* C28: what a final answer means.  Whenever progressiveCompare returns
\* shouldContinue = false with a level k of 1..3, either the similarity of the
\* result is at least the threshold of level k and result.algorithm is level
\* k's algorithm, or the outcome is the fall-through with level 4 disabled,
\* which has result.algorithm = 'progressive' and similarity 0; the
\* fall-through is the only such outcome whose similarity is below the
\* threshold of the level it reports.
C28_FinalAnswer ==
  (Returned /\ ~outcome.shouldContinue)
  => /\ outcome.level \in Levels
     /\ IF IsFallThrough
        THEN /\ outcome.result.similarity.num = 0
             /\ ~Level4On
             /\ NoLevelCleared
        ELSE /\ Configured(outcome.level)
             /\ RatioGEq(outcome.result.similarity, opts[LevelKey(outcome.level)].threshold)
             /\ outcome.result.algorithm = opts[LevelKey(outcome.level)].algorithm
     /\ BelowReportedThreshold => IsFallThrough

\* The fall-through reported level 3, whose comparison had fallen below its
\* threshold, after a level 2 that did so too.
C28_Witness ==
  /\ Returned
  /\ ~outcome.shouldContinue
  /\ IsFallThrough
  /\ BelowReportedThreshold
  /\ FellBelow(2)
  /\ FellBelow(3)

(***************************************************************************)
(* Properties of two invocations set side by side                          *)
(***************************************************************************)

\* The configurations o1 and o2 set levels 1-3 alike and both set level 4,
\* with the same enabled: they differ, if at all, in level4.semanticThreshold
\* and level4.apiEndpoint.
SameButTier4Parameters(o1, o2) ==
  /\ \A k \in Levels : Get(o1, LevelKey(k)) = Get(o2, LevelKey(k))
  /\ Truthy(Get(o1, "level4"))
  /\ Truthy(Get(o2, "level4"))
  /\ Get(o1, "level4").enabled = Get(o2, "level4").enabled

\* C29: the parameters of level 4 do not interfere.  Two progressiveCompare
\* calls on the same images whose configurations differ only in
\* level4.semanticThreshold and level4.apiEndpoint settle alike: the same
\* level, shouldContinue and result, or the same failure.
C29_Tier4NonInterference ==
  \A a \in CallIds, b \in CallIds :
    (/\ calls[a].pc = Done
     /\ calls[b].pc = Done
     /\ calls[a].image1 = calls[b].image1
     /\ calls[a].image2 = calls[b].image2
     /\ SameButTier4Parameters(calls[a].opts, calls[b].opts))
    => calls[a].outcome = calls[b].outcome

\* Two calls on the same images, one with semanticThreshold 0.8 and no
\* endpoint and one with 0.6 and an endpoint, both handed off to level 4.
C29_Witness ==
  /\ calls[1].pc = Done
  /\ calls[2].pc = Done
  /\ calls[1].image2 = calls[2].image2
  /\ SameButTier4Parameters(calls[1].opts, calls[2].opts)
  /\ calls[1].opts["level4"].semanticThreshold # calls[2].opts["level4"].semanticThreshold
  /\ "apiEndpoint" \in DOMAIN calls[1].opts["level4"]
  /\ "apiEndpoint" \notin DOMAIN calls[2].opts["level4"]
  /\ calls[1].outcome.kind = "return"
  /\ calls[1].outcome.level = 4


====
